---- MODULE Spec2Model ----
(***************************************************************************)
(* A model of comfy-pack's installer core: the content-addressable model   *)
(* store and the asset resolver (package.py: retrieve_models,              *)
(* create_model_symlink, download_file), the hash cache (hash.py) and the  *)
(* staged installer (package.py: install_comfyui, install_dependencies,    *)
(* install).                                                               *)
(*                                                                         *)
(* File contents are abstract byte strings; Sha256 is a table over them.   *)
(* A filesystem node is a record [k, v]: k is "none", "file" (v: content), *)
(* or "link" (v: the store hash the symlink points to).                    *)
(***************************************************************************)
EXTENDS Integers, Sequences, FiniteSets, TLC

\* ------------------------------------------------------------------ bounds
\* Operator answers (other than 'skip') accepted per resolution pass.
MaxPrompts == 1
\* Resolution passes started on the host, over all installer processes.
MaxPasses == 2
\* The write counters of the store saturate here.
WriteCap == 3

\* ------------------------------------------------------- contents and hashes
Procs == {1, 2}
Hashes == {"h1", "h2"}
NoSha == "none"

\* g1, g2: the bytes whose digests are h1, h2.  junk: some other local file.
\* corrupt: a completed download whose digest is not the expected one.
\* partial: a file that is still being written (or was left half-written).
Contents == {"g1", "g2", "junk", "corrupt", "partial"}

Sha256(c) ==
    CASE c = "g1" -> "h1"
      [] c = "g2" -> "h2"
      [] c = "junk" -> "hj"
      [] c = "corrupt" -> "hc"
      [] c = "partial" -> "hp"

Good(h) == CHOOSE c \in Contents : Sha256(c) = h

\* ------------------------------------------------------------ filesystem
None == [k |-> "none", v |-> "-"]
File(c) == [k |-> "file", v |-> c]
Link(h) == [k |-> "link", v |-> h]

\* Following symlinks, as stat() does: the node a path finally names.
RECURSIVE Deref(_, _, _)
Deref(st, n, d) ==
    IF n.k # "link" THEN n
    ELSE IF d = 0 THEN None
    ELSE Deref(st, st[n.v], d - 1)

DerefDepth == Cardinality(Hashes) + 1

\* Path.exists(), Path.is_file(), Path.is_symlink()
Exists(st, n) == Deref(st, n, DerefDepth).k # "none"
IsFile(st, n) == Deref(st, n, DerefDepth).k = "file"
IsSymlink(n) == n.k = "link"

\* open(path, "wb") + write: through a symlink the referent is written.
RECURSIVE WriteStore(_, _, _, _)
WriteStore(st, h, c, d) ==
    IF st[h].k = "link" /\ d > 0 THEN WriteStore(st, st[h].v, c, d - 1)
    ELSE [st EXCEPT ![h] = File(c)]

\* What reading the file at <store>/<h> yields.
ReadStore(st, h) == Deref(st, st[h], DerefDepth)

\* create_model_symlink replacing whatever exists at the target.
create_model_symlink_force(st, n, sha) ==
    IF Exists(st, n) \/ n.k = "none"
    THEN [ok |-> TRUE, node |-> Link(sha)]
    ELSE [ok |-> FALSE, node |-> n]

\* create_model_symlink: the new node at the target path, or an error.
\* exists() is false for a dangling symlink, so it is not unlinked first and
\* os.symlink fails on it.
create_model_symlink(st, n, sha) ==
    IF Exists(st, n)
    THEN IF IsSymlink(n)
         THEN [ok |-> TRUE, node |-> Link(sha)]
         ELSE [ok |-> FALSE, node |-> n]
    ELSE IF n.k = "none"
         THEN [ok |-> TRUE, node |-> Link(sha)]
         ELSE [ok |-> FALSE, node |-> n]

\* ------------------------------------------------------------- packages
Entry(sha, disabled, bundled, source) ==
    [sha |-> sha, disabled |-> disabled, bundled |-> bundled, source |-> source]

NoBlobs == [h \in Hashes |-> "none"]

Packages ==
    { [models |-> << Entry("h1", FALSE, FALSE, TRUE), Entry("h1", FALSE, FALSE, TRUE) >>,
       blobs |-> NoBlobs],
      [models |-> << Entry("h1", FALSE, FALSE, FALSE), Entry("h2", TRUE, FALSE, TRUE) >>,
       blobs |-> NoBlobs],
      [models |-> << Entry("h1", FALSE, TRUE, FALSE), Entry(NoSha, FALSE, FALSE, TRUE) >>,
       blobs |-> [NoBlobs EXCEPT !["h1"] = "g1"]],
      [models |-> << Entry("h2", FALSE, TRUE, TRUE) >>,
       blobs |-> NoBlobs],
      [models |-> << >>, blobs |-> NoBlobs] }

MaxEntries == 2
Slots == 1 .. MaxEntries

VARIABLES
    pkg,      \* the package being installed: snapshot["models"] and models/<sha>
    store,    \* MODEL_DIR: hash -> node
    ws,       \* per process, the node at workspace/<filename> of each entry
    pc,       \* per process, the position inside retrieve_models
    idx,      \* per process, the index of the entry being resolved
    opt,      \* per process, the arguments of the running pass
    prompts,  \* per process, operator answers consumed in this pass
    passes,   \* resolution passes started so far
    arg,      \* per process, the content of the local file the operator named
    how,      \* per process and entry, the branch that handled the entry
    ws0,      \* per process, the workspace as it was when the pass began
    last,     \* per process, how the last pass ended
    net,      \* per process, whether this pass made a network call
    prevDl,   \* per process, the pass before this one resolved an entry by download
    writes    \* per hash, how often <store>/<hash> was opened for writing

rvars == << pkg, store, ws, pc, idx, opt, prompts, passes, arg, how, ws0, last,
            net, prevDl, writes >>

VARIABLES
    hfiles,     \* hash.py: path -> the file there (data, st_size, st_ctime)
    hclock,     \* the change-time the next modification of a file gets
    cacheFile,  \* SHA_CACHE_FILE: absent, unparseable, or a map path -> entry
    hbatches,   \* batches started so far
    bpc,        \* per batch process, the position in async_batch_get_sha256
    bargs,      \* per batch process, filepaths and cache_only
    bi,         \* per batch process, the index into filepaths
    bcache,     \* per batch process, the local `cache` dict
    bnew,       \* per batch process, the local `new_cache` dict
    bres,       \* per batch process, the local `results` dict
    bstat,      \* per batch process, the stat taken for the current path
    bobs,       \* per batch process and path, the stat seen when it was handled
    bcomp,      \* per batch process, the paths a hash worker was started for
    bout,       \* per batch process, how the last batch ended
    bload,      \* per batch process, the cache as loaded at the batch's start
    bread       \* per batch process, the cache as read again before the save

hvars == << hfiles, hclock, cacheFile, hbatches, bpc, bargs, bi, bcache, bnew,
            bres, bstat, bobs, bcomp, bout, bload, bread >>

VARIABLES
    snap,    \* snapshot.json: has "pips", names a ComfyUI-Manager node
    wsx,     \* the workspace directory: marker, checkouts, .venv
    pdirs,   \* workspace/custom_nodes/<directory> of each plugin directory
    ipc,     \* the position inside install / install_custom_modules
    ireq,    \* the arguments of the running install call
    icalls,  \* install or stage calls started so far
    iwork,   \* the work the running call has carried out
    iout,    \* how the last call ended
    iprev,   \* the call before this one, if it returned: arguments, end state
    ev,      \* the last stage execution: target before and after
    mods,    \* snapshot["custom_nodes"] of the running plugin stage
    mi       \* the index into mods

ivars == << snap, wsx, pdirs, ipc, ireq, icalls, iwork, iout, iprev, ev, mods,
            mi >>

\* The resolver's variables other than the workspace model paths.
rctl == << pkg, store, pc, idx, opt, prompts, passes, arg, how, ws0, last, net,
           prevDl, writes >>

VARIABLES
    lsha,   \* create_model_symlink called on its own: the sha argument
    lres,   \* how that call ended
    lpre    \* the target node and the store as they were before that call

lvars == << lsha, lres, lpre >>

VARIABLES
    dproc,    \* DevServer.proc: 0 for None, else the process it was opened on
    dlive,    \* the supervised server processes that are alive
    dwdt,     \* DevServer.watch_dog_task is set (the task is scheduled)
    dfeed,    \* DevServer.last_feed
    drun,     \* DevServer.run_dir: 0 for None, else the directory
    ddirs,    \* the run directories that exist on disk
    dnow,     \* time.time()
    dstarts,  \* processes opened so far
    dop       \* the last operation on DevServer and what it reported

dvars == << dproc, dlive, dwdt, dfeed, drun, ddirs, dnow, dstarts, dop >>

VARIABLES
    qin,      \* a call of a handler or of download_file: its arguments
    qout      \* what that call answered or sent

qvars == << qin, qout >>

\* nodes/api.py and download_file's request, apart from the installer.
avars == << dvars, qvars >>

vars == << rvars, hvars, ivars, lvars, avars >>

Models == pkg.models
NumModels == Len(pkg.models)
Cur(p) == pkg.models[idx[p]]
CurSha(p) == pkg.models[idx[p]].sha

Bump(h) == [writes EXCEPT ![h] = IF @ < WriteCap THEN @ + 1 ELSE @]

ShaOf(i) == pkg.models[i].sha
Entries == 1 .. NumModels
PassOver(p) == pc[p] = "idle" /\ last[p] = "returned"

\* The entry was handled by a branch that resolves it (not skipped).
Resolved(p, i) ==
    how[p][i] \in {"present", "adopt", "cached", "bundled", "download",
                   "manual_url", "manual_file"}

NoOpt == [download |-> FALSE, all_models |-> FALSE, pack |-> FALSE]

\* ------------------------------------------------- retrieve_models: control
\* `continue` of the for loop (and `break` of the prompt loop).
Advance(p, outcome) ==
    /\ how' = [how EXCEPT ![p][idx[p]] = outcome]
    /\ idx' = [idx EXCEPT ![p] = @ + 1]
    /\ pc' = [pc EXCEPT ![p] = "check"]

Goto(p, label) ==
    /\ pc' = [pc EXCEPT ![p] = label]
    /\ UNCHANGED << idx, how >>

\* An exception leaving retrieve_models.
Raise(p) ==
    /\ pc' = [pc EXCEPT ![p] = "idle"]
    /\ last' = [last EXCEPT ![p] = "raised"]
    /\ UNCHANGED << idx, how >>

\* Entry into retrieve_models(snapshot, workspace, download, all_models,
\* pack_dir) with the given arguments.
BeginWith(p, dl, am, pk) ==
    /\ opt' = [opt EXCEPT ![p] =
                 [download |-> dl, all_models |-> am, pack |-> pk]]
    /\ passes' = IF passes < MaxPasses THEN passes + 1 ELSE passes
    /\ prompts' = [prompts EXCEPT ![p] = 0]
    /\ net' = [net EXCEPT ![p] = FALSE]
    /\ ws0' = [ws0 EXCEPT ![p] = ws[p]]
    /\ how' = [how EXCEPT ![p] = [i \in Slots |-> "-"]]
    /\ idx' = [idx EXCEPT ![p] = 1]
    /\ prevDl' = [prevDl EXCEPT ![p] =
                    /\ last[p] = "returned"
                    /\ opt[p].download
                    /\ \E i \in 1 .. NumModels :
                         how[p][i] \in {"download", "manual_url"}]
    /\ IF NumModels = 0
       THEN /\ pc' = pc
            /\ last' = [last EXCEPT ![p] = "returned"]
       ELSE /\ pc' = [pc EXCEPT ![p] = "check"]
            /\ last' = [last EXCEPT ![p] = "running"]
    /\ UNCHANGED << pkg, store, ws, arg, writes >>

\* A host program calls retrieve_models with any arguments.
Begin(p) ==
    /\ pc[p] = "idle"
    /\ passes < MaxPasses
    /\ \E dl \in BOOLEAN, am \in BOOLEAN, pk \in BOOLEAN : BeginWith(p, dl, am, pk)
    /\ UNCHANGED << hvars, lvars, avars, ivars >>

\* Passes run one after another: a pass starts only when no other is running.
StartPassSeq(p) ==
    /\ \A q \in Procs : pc[q] = "idle"
    /\ Begin(p)

\* Installer processes run side by side on the shared store.
StartPassConc(p) == Begin(p)

\* The for loop is exhausted: retrieve_models returns.
PassReturn(p) ==
    /\ pc[p] = "check"
    /\ idx[p] > NumModels
    /\ pc' = [pc EXCEPT ![p] = "idle"]
    /\ last' = [last EXCEPT ![p] = "returned"]
    /\ UNCHANGED << hvars, lvars, avars, ivars, pkg, store, ws, idx, opt, prompts, passes, arg, how, ws0,
                    net, prevDl, writes >>

\* Lines 303-352: the tests that choose the branch for one entry.
EntryCheck(p) ==
    /\ pc[p] = "check"
    /\ idx[p] <= NumModels
    /\ LET e == Cur(p)
           n == ws[p][idx[p]]
       IN  IF e.sha = NoSha
           THEN Advance(p, "nosha")
           ELSE IF Exists(store, n)
           THEN IF ~Exists(store, store[e.sha]) /\ IsFile(store, n)
                THEN /\ how' = [how EXCEPT ![p][idx[p]] = "adopt"]
                     /\ pc' = [pc EXCEPT ![p] = "move"]
                     /\ idx' = idx
                ELSE Advance(p, "present")
           ELSE IF Exists(store, store[e.sha])
           THEN Goto(p, "link_cached")
           ELSE IF e.disabled /\ ~opt[p].all_models
           THEN Advance(p, "disabled")
           ELSE IF e.bundled /\ opt[p].pack /\ pkg.blobs[e.sha] # "none"
           THEN Goto(p, "bcopy")
           ELSE IF ~opt[p].download
           THEN Advance(p, "nofetch")
           ELSE IF e.source
           THEN Goto(p, "dl")
           ELSE Goto(p, "prompt")
    /\ UNCHANGED << hvars, lvars, avars, ivars, pkg, store, ws, opt, prompts, passes, arg, ws0, last, net,
                    prevDl, writes >>

\* ------------------------------------------------ retrieve_models: adoption
\* Adoption that copies the file into the store and leaves the original.
Adopt_move_copy(p) ==
    /\ pc[p] = "move"
    /\ store' = [store EXCEPT ![CurSha(p)] = ws[p][idx[p]]]
    /\ ws' = ws
    /\ writes' = Bump(CurSha(p))
    /\ Goto(p, "link_adopt")
    /\ UNCHANGED << hvars, lvars, avars, ivars, pkg, opt, prompts, passes, arg, ws0, last, net, prevDl >>

\* Line 313: shutil.move(workspace / filename, MODEL_DIR / sha), a rename: the
\* node itself (a symlink stays a symlink) replaces whatever is at the target.
Adopt_move(p) ==
    /\ pc[p] = "move"
    /\ store' = [store EXCEPT ![CurSha(p)] = ws[p][idx[p]]]
    /\ ws' = [ws EXCEPT ![p][idx[p]] = None]
    /\ writes' = Bump(CurSha(p))
    /\ Goto(p, "link_adopt")
    /\ UNCHANGED << hvars, lvars, avars, ivars, pkg, opt, prompts, passes, arg, ws0, last, net, prevDl >>

\* A create_model_symlink call outside the prompt loop, lines 314, 319, 340:
\* its error leaves retrieve_models.
LinkOrRaise(p, outcome) ==
    LET r == create_model_symlink(store, ws[p][idx[p]], CurSha(p))
    IN  IF r.ok
        THEN /\ ws' = [ws EXCEPT ![p][idx[p]] = r.node]
             /\ Advance(p, outcome)
             /\ last' = last
        ELSE /\ ws' = ws
             /\ Raise(p)

Adopt_link(p) ==
    /\ pc[p] = "link_adopt"
    /\ LinkOrRaise(p, "adopt")
    /\ UNCHANGED << hvars, lvars, avars, ivars, pkg, store, opt, prompts, passes, arg, ws0, net, prevDl,
                    writes >>

\* Lines 317-320: the store already holds the hash.
Cached_link(p) ==
    /\ pc[p] = "link_cached"
    /\ LinkOrRaise(p, "cached")
    /\ UNCHANGED << hvars, lvars, avars, ivars, pkg, store, opt, prompts, passes, arg, ws0, net, prevDl,
                    writes >>

\* ------------------------------------------------- retrieve_models: bundled
\* Line 333: shutil.copy2 opens the target for writing, then copies.
Bundled_copy_open(p) ==
    /\ pc[p] = "bcopy"
    /\ store' = WriteStore(store, CurSha(p), "partial", DerefDepth)
    /\ writes' = Bump(CurSha(p))
    /\ Goto(p, "bcopying")
    /\ UNCHANGED << hvars, lvars, avars, ivars, pkg, ws, opt, prompts, passes, arg, ws0, last, net, prevDl >>

Bundled_copy_done(p) ==
    /\ pc[p] = "bcopying"
    /\ store' = WriteStore(store, CurSha(p), pkg.blobs[CurSha(p)], DerefDepth)
    /\ Goto(p, "link_bundled")
    /\ UNCHANGED << hvars, lvars, avars, ivars, pkg, ws, opt, prompts, passes, arg, ws0, last, net, prevDl,
                    writes >>

Bundled_link(p) ==
    /\ pc[p] = "link_bundled"
    /\ LinkOrRaise(p, "bundled")
    /\ UNCHANGED << hvars, lvars, avars, ivars, pkg, store, opt, prompts, passes, arg, ws0, net, prevDl,
                    writes >>

\* ------------------------------------------------ retrieve_models: download
Manual(p) == pc[p] \in {"mdl", "mdling", "mverify", "munlink"}

\* download_file, lines 231-259, up to the point the destination is opened.
\* Either the transfer fails before that (the handler then unlinks whatever
\* exists at the destination), or the destination is created or truncated.
Download_open(p) ==
    /\ pc[p] \in {"dl", "mdl"}
    /\ net' = [net EXCEPT ![p] = TRUE]
    /\ \/ /\ store' = IF Exists(store, store[CurSha(p)])
                      THEN [store EXCEPT ![CurSha(p)] = None]
                      ELSE store
          /\ writes' = writes
          /\ Goto(p, IF Manual(p) THEN "mverify" ELSE "verify")
       \/ /\ store' = WriteStore(store, CurSha(p), "partial", DerefDepth)
          /\ writes' = Bump(CurSha(p))
          /\ Goto(p, IF Manual(p) THEN "mdling" ELSE "dling")
    /\ UNCHANGED << hvars, lvars, avars, ivars, pkg, ws, opt, prompts, passes, arg, ws0, last, prevDl >>

\* download_file: the transfer ends.  The server's bytes are the expected ones
\* or not; a transfer that breaks off is unlinked by the exception handler.
Download_done(p) ==
    /\ pc[p] \in {"dling", "mdling"}
    /\ \/ \E c \in {Good(CurSha(p)), "corrupt"} :
            store' = WriteStore(store, CurSha(p), c, DerefDepth)
       \/ store' = IF Exists(store, store[CurSha(p)])
                   THEN [store EXCEPT ![CurSha(p)] = None]
                   ELSE store
    /\ Goto(p, IF Manual(p) THEN "mverify" ELSE "verify")
    /\ UNCHANGED << hvars, lvars, avars, ivars, pkg, ws, opt, prompts, passes, arg, ws0, last, net, prevDl,
                    writes >>

\* get_sha256 of a store path as retrieve_models uses it: None for a missing
\* file, else the digest of the bytes (a file written since the path was last
\* hashed has a new change-time, so the hash cache misses and recomputes).
get_sha256(st, h) ==
    IF ~Exists(st, st[h]) THEN "missing" ELSE Sha256(ReadStore(st, h).v)

\* Lines 362-372 (source download) and 397-410 (operator URL): the tests after
\* the download thread is joined.  After a verified source download the loop
\* continues with the next entry.
Verify(p) ==
    /\ pc[p] \in {"verify", "mverify"}
    /\ IF ~Exists(store, store[CurSha(p)])
       THEN IF Manual(p)
            THEN Goto(p, "prompt") /\ arg' = arg
            ELSE Advance(p, "dlfail") /\ arg' = arg
       ELSE IF get_sha256(store, CurSha(p)) # CurSha(p)
       THEN Goto(p, IF Manual(p) THEN "munlink" ELSE "unlink") /\ arg' = arg
       ELSE IF Manual(p)
            THEN Goto(p, "mlink") /\ arg' = [arg EXCEPT ![p] = "url"]
            ELSE Advance(p, "download") /\ arg' = arg
    /\ UNCHANGED << hvars, lvars, avars, ivars, pkg, store, ws, opt, prompts, passes, ws0, last, net, prevDl,
                    writes >>

\* Lines 370 and 407 with a failed verification of a source download ending
\* the pass instead of going on to the prompt.
Unlink_abandons(p) ==
    /\ pc[p] \in {"unlink", "munlink"}
    /\ IF store[CurSha(p)].k = "none" \/ ~Manual(p)
       THEN /\ store' = store
            /\ IF Manual(p)
               THEN Goto(p, "prompt") /\ last' = last
               ELSE Raise(p)
       ELSE /\ store' = [store EXCEPT ![CurSha(p)] = None]
            /\ Goto(p, "prompt")
            /\ last' = last
    /\ UNCHANGED << hvars, lvars, avars, ivars, pkg, ws, opt, prompts, passes, arg, ws0, net, prevDl,
                    writes >>

\* Lines 370 and 407: target_path.unlink() after a failed verification.  On a
\* path that is gone it raises; inside the prompt loop that is caught.
Unlink(p) ==
    /\ pc[p] \in {"unlink", "munlink"}
    /\ IF store[CurSha(p)].k = "none"
       THEN /\ store' = store
            /\ IF Manual(p)
               THEN Goto(p, "prompt") /\ last' = last
               ELSE Raise(p)
       ELSE /\ store' = [store EXCEPT ![CurSha(p)] = None]
            /\ Goto(p, "prompt")
            /\ last' = last
    /\ UNCHANGED << hvars, lvars, avars, ivars, pkg, ws, opt, prompts, passes, arg, ws0, net, prevDl,
                    writes >>

\* ----------------------------------------- retrieve_models: manual resolution
LocalFiles == {"absent", "g1", "g2", "junk"}

\* Lines 378-427: one answer of the operator.  'skip' leaves the loop; a URL
\* starts a download; a local path is checked (it must exist and hash to the
\* expected value) before anything is copied.
Prompt(p) ==
    /\ pc[p] = "prompt"
    /\ \/ /\ Advance(p, "skip")
          /\ UNCHANGED << prompts, arg >>
       \/ /\ prompts[p] < MaxPrompts
          /\ prompts' = [prompts EXCEPT ![p] = @ + 1]
          /\ \/ Goto(p, "mdl") /\ arg' = arg
             \/ \E f \in LocalFiles :
                  IF f # "absent" /\ Sha256(f) = CurSha(p)
                  THEN Goto(p, "lcopy") /\ arg' = [arg EXCEPT ![p] = f]
                  ELSE Goto(p, "prompt") /\ arg' = arg
    /\ UNCHANGED << hvars, lvars, avars, ivars, pkg, store, ws, opt, passes, ws0, last, net, prevDl, writes >>

\* Line 429: shutil.copy2(downloaded_path, MODEL_DIR / sha).
Local_copy_open(p) ==
    /\ pc[p] = "lcopy"
    /\ store' = WriteStore(store, CurSha(p), "partial", DerefDepth)
    /\ writes' = Bump(CurSha(p))
    /\ Goto(p, "lcopying")
    /\ UNCHANGED << hvars, lvars, avars, ivars, pkg, ws, opt, prompts, passes, arg, ws0, last, net, prevDl >>

Local_copy_done(p) ==
    /\ pc[p] = "lcopying"
    /\ store' = WriteStore(store, CurSha(p), arg[p], DerefDepth)
    /\ Goto(p, "mlink")
    /\ UNCHANGED << hvars, lvars, avars, ivars, pkg, ws, opt, prompts, passes, arg, ws0, last, net, prevDl,
                    writes >>

\* Lines 431-437: create_model_symlink inside the try of the prompt loop; its
\* error is printed and the operator is asked again.
Manual_link(p) ==
    /\ pc[p] = "mlink"
    /\ LET r == create_model_symlink(store, ws[p][idx[p]], CurSha(p))
       IN  IF r.ok
           THEN /\ ws' = [ws EXCEPT ![p][idx[p]] = r.node]
                /\ Advance(p, IF arg[p] = "url" THEN "manual_url" ELSE "manual_file")
           ELSE /\ ws' = ws
                /\ Goto(p, "prompt")
    /\ UNCHANGED << hvars, lvars, avars, ivars, pkg, store, opt, prompts, passes, arg, ws0, last, net, prevDl,
                    writes >>

\* ============================================================= hash.py
\* The persistent hash cache: async_batch_get_sha256.
Paths == {"a", "b"}
Batchers == {1, 2}

\* Batches started on the host, and modifications of the hashed files.
MaxBatches == 2
MaxClock == 1

\* st_size of a file, by its content.
SizeOf(c) == IF c = "junk" THEN 2 ELSE 1
FileData == {"g1", "g2", "junk"}

Missing == [data |-> "none", size |-> 0, ctime |-> 0]
HFile(c, t) == [data |-> c, size |-> SizeOf(c), ctime |-> t]

\* A cache entry {"sha256", "size", "birthtime"}; NoEntry: the key is absent.
NoEntry == [sha256 |-> "-", size |-> 0, birthtime |-> 0]
EmptyCache == [f \in Paths |-> NoEntry]
CacheEntry(sha, st) == [sha256 |-> sha, size |-> st.size, birthtime |-> st.ctime]

\* json.load of the cache file where a failure is caught (lines 58-63).
LoadCache == IF cacheFile.st = "ok" THEN cacheFile.map ELSE EmptyCache

\* cache.update(new_cache)
Merge(cache, new) == [f \in Paths |-> IF new[f] # NoEntry THEN new[f] ELSE cache[f]]

\* The filepaths a batch is called with.
BatchInputs == { << "a" >>, << "b" >>, << "a", "b" >> }

Unset == "unset"
NoStat == [size |-> 0 - 1, ctime |-> 0 - 1]

\* Lines 56-73: the call, the cache loaded once.
Batch_begin(b) ==
    /\ bpc[b] = "idle"
    /\ hbatches < MaxBatches
    /\ hbatches' = hbatches + 1
    /\ \E fps \in BatchInputs, co \in BOOLEAN :
         bargs' = [bargs EXCEPT ![b] = [filepaths |-> fps, cache_only |-> co]]
    /\ bcache' = [bcache EXCEPT ![b] = LoadCache]
    /\ bnew' = [bnew EXCEPT ![b] = EmptyCache]
    /\ bres' = [bres EXCEPT ![b] = [f \in Paths |-> Unset]]
    /\ bobs' = [bobs EXCEPT ![b] = [f \in Paths |-> NoStat]]
    /\ bcomp' = [bcomp EXCEPT ![b] = {}]
    /\ bi' = [bi EXCEPT ![b] = 1]
    /\ bpc' = [bpc EXCEPT ![b] = "loop"]
    /\ bout' = [bout EXCEPT ![b] = "running"]
    /\ bload' = [bload EXCEPT ![b] = LoadCache]
    /\ UNCHANGED << rvars, ivars, lvars, avars, bread, hfiles, hclock, cacheFile, bstat >>

\* The test with the change-time compared against the wrong field.
CacheHit_wrong_field(entry, st) ==
    /\ entry # NoEntry
    /\ entry.size = st.size
    /\ entry.birthtime = st.size

\* The test of lines 86-93: a cache entry whose size and change-time are the
\* file's.
CacheHit(entry, st) ==
    /\ entry # NoEntry
    /\ entry.size = st.size
    /\ entry.birthtime = st.ctime

\* The loop body without the cache_only test: every miss is hashed.
Batch_path_ignores_cache_only(b) ==
    /\ bpc[b] = "loop"
    /\ bi[b] <= Len(bargs[b].filepaths)
    /\ LET f == bargs[b].filepaths[bi[b]]
           st == [size |-> hfiles[f].size, ctime |-> hfiles[f].ctime]
       IN  IF hfiles[f] = Missing
           THEN /\ bres' = [bres EXCEPT ![b][f] = "None"]
                /\ bi' = [bi EXCEPT ![b] = @ + 1]
                /\ UNCHANGED << bpc, bstat, bobs >>
           ELSE /\ bobs' = [bobs EXCEPT ![b][f] = st]
                /\ IF CacheHit(bcache[b][f], st)
                   THEN /\ bres' = [bres EXCEPT ![b][f] = bcache[b][f].sha256]
                        /\ bi' = [bi EXCEPT ![b] = @ + 1]
                        /\ UNCHANGED << bpc, bstat >>
                   ELSE IF FALSE
                   THEN /\ bres' = [bres EXCEPT ![b][f] = ""]
                        /\ bi' = [bi EXCEPT ![b] = @ + 1]
                        /\ UNCHANGED << bpc, bstat >>
                   ELSE /\ bstat' = [bstat EXCEPT ![b] = st]
                        /\ bpc' = [bpc EXCEPT ![b] = "hash"]
                        /\ UNCHANGED << bres, bi >>
    /\ UNCHANGED << rvars, ivars, lvars, avars, bload, bread, hfiles, hclock, cacheFile, hbatches, bargs, bcache,
                    bnew, bcomp, bout >>

\* The loop body leaving a missing path out of the results.
Batch_path_drops_missing(b) ==
    /\ bpc[b] = "loop"
    /\ bi[b] <= Len(bargs[b].filepaths)
    /\ LET f == bargs[b].filepaths[bi[b]]
           st == [size |-> hfiles[f].size, ctime |-> hfiles[f].ctime]
       IN  IF hfiles[f] = Missing
           THEN /\ bres' = bres
                /\ bi' = [bi EXCEPT ![b] = @ + 1]
                /\ UNCHANGED << bpc, bstat, bobs >>
           ELSE /\ bobs' = [bobs EXCEPT ![b][f] = st]
                /\ IF CacheHit(bcache[b][f], st)
                   THEN /\ bres' = [bres EXCEPT ![b][f] = bcache[b][f].sha256]
                        /\ bi' = [bi EXCEPT ![b] = @ + 1]
                        /\ UNCHANGED << bpc, bstat >>
                   ELSE IF bargs[b].cache_only
                   THEN /\ bres' = [bres EXCEPT ![b][f] = ""]
                        /\ bi' = [bi EXCEPT ![b] = @ + 1]
                        /\ UNCHANGED << bpc, bstat >>
                   ELSE /\ bstat' = [bstat EXCEPT ![b] = st]
                        /\ bpc' = [bpc EXCEPT ![b] = "hash"]
                        /\ UNCHANGED << bres, bi >>
    /\ UNCHANGED << rvars, ivars, lvars, avars, bload, bread, hfiles, hclock, cacheFile, hbatches, bargs, bcache,
                    bnew, bcomp, bout >>

\* Lines 75-97: one path up to the decision to hash it.
Batch_path(b) ==
    /\ bpc[b] = "loop"
    /\ bi[b] <= Len(bargs[b].filepaths)
    /\ LET f == bargs[b].filepaths[bi[b]]
           st == [size |-> hfiles[f].size, ctime |-> hfiles[f].ctime]
       IN  IF hfiles[f] = Missing
           THEN /\ bres' = [bres EXCEPT ![b][f] = "None"]
                /\ bi' = [bi EXCEPT ![b] = @ + 1]
                /\ UNCHANGED << bpc, bstat, bobs >>
           ELSE /\ bobs' = [bobs EXCEPT ![b][f] = st]
                /\ IF CacheHit(bcache[b][f], st)
                   THEN /\ bres' = [bres EXCEPT ![b][f] = bcache[b][f].sha256]
                        /\ bi' = [bi EXCEPT ![b] = @ + 1]
                        /\ UNCHANGED << bpc, bstat >>
                   ELSE IF bargs[b].cache_only
                   THEN /\ bres' = [bres EXCEPT ![b][f] = ""]
                        /\ bi' = [bi EXCEPT ![b] = @ + 1]
                        /\ UNCHANGED << bpc, bstat >>
                   ELSE /\ bstat' = [bstat EXCEPT ![b] = st]
                        /\ bpc' = [bpc EXCEPT ![b] = "hash"]
                        /\ UNCHANGED << bres, bi >>
    /\ UNCHANGED << rvars, ivars, lvars, avars, bload, bread, hfiles, hclock, cacheFile, hbatches, bargs, bcache,
                    bnew, bcomp, bout >>

\* Lines 99-110: calculate_sha256_worker reads the file as it is now.  A worker
\* that exits non-zero fails its assertion, and the exception leaves the batch.
Batch_hash(b) ==
    /\ bpc[b] = "hash"
    /\ LET f == bargs[b].filepaths[bi[b]]
       IN  /\ bcomp' = [bcomp EXCEPT ![b] = @ \cup {f}]
           /\ \/ /\ hfiles[f] # Missing
                 /\ bnew' = [bnew EXCEPT ![b][f] =
                               CacheEntry(Sha256(hfiles[f].data), bstat[b])]
                 /\ bres' = [bres EXCEPT ![b][f] = Sha256(hfiles[f].data)]
                 /\ bi' = [bi EXCEPT ![b] = @ + 1]
                 /\ bpc' = [bpc EXCEPT ![b] = "loop"]
                 /\ bout' = bout
              \/ /\ bpc' = [bpc EXCEPT ![b] = "idle"]
                 /\ bout' = [bout EXCEPT ![b] = "raised"]
                 /\ UNCHANGED << bnew, bres, bi >>
    /\ UNCHANGED << rvars, ivars, lvars, avars, bload, bread, hfiles, hclock, cacheFile, hbatches, bargs, bcache,
                    bstat, bobs >>

\* Lines 112-119: the cache file is read again and new_cache merged into it.
\* A missing file is an OSError and gives {}; a file that does not parse
\* raises json.JSONDecodeError, which this handler does not name.
Batch_reread(b) ==
    /\ bpc[b] = "loop"
    /\ bi[b] > Len(bargs[b].filepaths)
    /\ IF cacheFile.st = "corrupt"
       THEN /\ bpc' = [bpc EXCEPT ![b] = "idle"]
            /\ bout' = [bout EXCEPT ![b] = "raised"]
            /\ bcache' = bcache
       ELSE /\ bcache' = [bcache EXCEPT ![b] = Merge(LoadCache, bnew[b])]
            /\ bpc' = [bpc EXCEPT ![b] = "write"]
            /\ bout' = bout
    /\ bread' = [bread EXCEPT ![b] = LoadCache]
    /\ UNCHANGED << rvars, ivars, lvars, avars, bload, hfiles, hclock, cacheFile, hbatches, bargs, bi, bnew,
                    bres, bstat, bobs, bcomp >>

\* Lines 121-125: open(..., "w") truncates the file; a failure is swallowed.
Batch_write_open(b) ==
    /\ bpc[b] = "write"
    /\ \/ /\ cacheFile' = [cacheFile EXCEPT !.st = "corrupt"]
          /\ bpc' = [bpc EXCEPT ![b] = "writing"]
          /\ bout' = bout
       \/ /\ cacheFile' = cacheFile
          /\ bpc' = [bpc EXCEPT ![b] = "idle"]
          /\ bout' = [bout EXCEPT ![b] = "returned"]
    /\ UNCHANGED << rvars, ivars, lvars, avars, bload, bread, hfiles, hclock, hbatches, bargs, bi, bcache, bnew,
                    bres, bstat, bobs, bcomp >>

\* json.dump completes, or fails part-way (swallowed); then `return results`.
Batch_write_done(b) ==
    /\ bpc[b] = "writing"
    /\ \/ cacheFile' = [st |-> "ok", map |-> bcache[b]]
       \/ cacheFile' = [cacheFile EXCEPT !.st = "corrupt"]
    /\ bpc' = [bpc EXCEPT ![b] = "idle"]
    /\ bout' = [bout EXCEPT ![b] = "returned"]
    /\ UNCHANGED << rvars, ivars, lvars, avars, bload, bread, hfiles, hclock, hbatches, bargs, bi, bcache, bnew,
                    bres, bstat, bobs, bcomp >>

\* The environment: a file is written, replaced or removed; its change-time
\* moves forward.
File_modify(f) ==
    /\ hclock <= MaxClock
    /\ hclock' = hclock + 1
    /\ \E c \in FileData \cup {"none"} :
         hfiles' = [hfiles EXCEPT ![f] =
                      IF c = "none" THEN Missing ELSE HFile(c, hclock)]
    /\ UNCHANGED << rvars, ivars, lvars, avars, bload, bread, cacheFile, hbatches, bpc, bargs, bi, bcache, bnew,
                    bres, bstat, bobs, bcomp, bout >>

\* ------------------------------------------- create_model_symlink on its own
\* create_model_symlink(MODEL_DIR, lsha, workspace, filename) with the target
\* path of entry 1 of workspace 1.
Call_link ==
    /\ lres = "none"
    /\ LET r == create_model_symlink(store, ws[1][1], lsha)
       IN  /\ ws' = [ws EXCEPT ![1][1] = r.node]
           /\ lres' = IF r.ok THEN "ok" ELSE "raised"
    /\ lpre' = << ws[1][1], store >>
    /\ UNCHANGED << hvars, ivars, avars, rctl, lsha >>

\* ------------------------------------------------------------ install stages
MaxInstalls == 2
MaxCalls == 3

Commits == {"c1", "c2"}

\* What a marker file may hold: nothing (no file), a commit as install_comfyui
\* writes it, or a commit followed by a newline as other tooling writes it.
Markers == {"none", "c1", "c2", "c1\n", "c2\n"}

\* str.strip() without the stripping.
Strip_identity(s) == s

\* str.strip() of a marker's text.
Strip(s) ==
    CASE s = "c1\n" -> "c1"
      [] s = "c2\n" -> "c2"
      [] OTHER -> s

\* The workspace directory when it does not exist.
Absent ==
    [exists |-> FALSE, marker |-> "none", repo |-> "none", mgr |-> "none",
     venv |-> "none", venvDone |-> FALSE, restored |-> FALSE, inputs |-> FALSE]

\* A workspace some other tooling set up at commit c1.
Provisioned ==
    [exists |-> TRUE, marker |-> "c1\n", repo |-> "c1", mgr |-> "ok",
     venv |-> "none", venvDone |-> FALSE, restored |-> FALSE, inputs |-> FALSE]

\* Plugin locators and the directory each is cloned into:
\* url.split("/")[-1].split(".")[0].
PUrls == {" ", "a/foo", "b/foo.git", "a/bar"}
PDirs == {"foo", "bar"}
IsBlank(url) == url = " "
DirOf(url) ==
    CASE url = "a/foo" -> "foo"
      [] url = "b/foo.git" -> "foo"
      [] url = "a/bar" -> "bar"
      [] OTHER -> "foo"

\* Whether the plugin's checkout has an install.py.
HasSetup(url) == url = "a/bar"

Module(url, commit) == [url |-> url, commit_hash |-> commit]

ModuleLists ==
    { << Module("a/foo", "c1") >>,
      << Module("a/foo", "c1"), Module("b/foo.git", "c2") >>,
      << Module(" ", "c1"), Module("a/bar", "c2") >>,
      << Module("a/foo", "c2"), Module("a/bar", "c1") >> }

NoDir == [exists |-> FALSE, marker |-> "none", url |-> "none", commit |-> "none"]
NoPlugins == [d \in PDirs |-> NoDir]

\* The arguments of install: the snapshot's "comfyui" commit and the options.
Requests ==
    { [commit |-> c, no_venv |-> o[1], preheat |-> o[2],
       prepare_models |-> o[3], all_models |-> o[4]] :
        c \in Commits,
        o \in { << FALSE, FALSE, TRUE, FALSE >>,
                << TRUE, TRUE, TRUE, TRUE >>,
                << FALSE, TRUE, FALSE, FALSE >> } }

NoRequest ==
    [commit |-> "none", no_venv |-> FALSE, preheat |-> FALSE,
     prepare_models |-> FALSE, all_models |-> FALSE]

NoModels == [i \in Slots |-> None]

Target == << wsx, pdirs, ws[1] >>

NoPrev ==
    [ok |-> FALSE, req |-> NoRequest, wsx |-> Absent, pdirs |-> NoPlugins,
     ws |-> NoModels, resolved |-> FALSE]

NoEvent ==
    [stage |-> "none", id |-> "none", marker |-> "none", existed |-> FALSE,
     removed |-> FALSE, ran |-> FALSE,
     before |-> << Absent, NoPlugins, NoModels >>,
     after |-> << Absent, NoPlugins, NoModels >>]

\* A failed step that lets its caller go on to the next position.
Leave_continue(ok, nextPc) ==
    /\ ipc' = nextPc
    /\ iout' = IF ~ok THEN "raised"
               ELSE IF nextPc = "idle" THEN "returned" ELSE "running"

\* How a stage leaves: into the next position of its caller, or by raising.
Leave(ok, nextPc) ==
    /\ ipc' = IF ok THEN nextPc ELSE "idle"
    /\ iout' = IF ~ok THEN "raised"
               ELSE IF nextPc = "idle" THEN "returned" ELSE "running"

\* Lines 68-83 with the environment directory surviving the removal of the
\* workspace.
Workspace_after_keeps_venv(o, c) ==
    LET kept == [Absent EXCEPT !.venv = wsx.venv, !.venvDone = wsx.venvDone]
    IN  CASE o = "clone_fail_clean" -> kept
          [] o = "clone_fail_partial" ->
               [kept EXCEPT !.exists = TRUE, !.repo = "partial"]
          [] o = "no_manager" ->
               [kept EXCEPT !.exists = TRUE, !.repo = c]
          [] o = "mgr_fail" ->
               [kept EXCEPT !.exists = TRUE, !.repo = c, !.mgr = "partial"]
          [] o = "marker_fail" ->
               [kept EXCEPT !.exists = TRUE, !.repo = c, !.mgr = "ok"]
          [] OTHER ->
               [kept EXCEPT !.exists = TRUE, !.repo = c, !.mgr = "ok",
                            !.marker = c]

\* Lines 69-83 with the marker written right after the first clone.
Workspace_after_marker_first(o, c) ==
    CASE o = "clone_fail_clean" -> Absent
      [] o = "clone_fail_partial" ->
           [Absent EXCEPT !.exists = TRUE, !.repo = "partial"]
      [] o = "no_manager" ->
           [Absent EXCEPT !.exists = TRUE, !.repo = c, !.marker = c]
      [] o = "mgr_fail" ->
           [Absent EXCEPT !.exists = TRUE, !.repo = c, !.mgr = "partial",
                          !.marker = c]
      [] o = "marker_fail" ->
           [Absent EXCEPT !.exists = TRUE, !.repo = c, !.mgr = "ok"]
      [] OTHER ->
           [Absent EXCEPT !.exists = TRUE, !.repo = c, !.mgr = "ok",
                          !.marker = c]

\* Lines 69-83: the workspace directory once install_comfyui has cloned into
\* the emptied path and left with outcome o; .DONE is written last.
Workspace_after(o, c) ==
    CASE o = "clone_fail_clean" -> Absent
      [] o = "clone_fail_partial" ->
           [Absent EXCEPT !.exists = TRUE, !.repo = "partial"]
      [] o = "no_manager" ->
           [Absent EXCEPT !.exists = TRUE, !.repo = c]
      [] o = "mgr_fail" ->
           [Absent EXCEPT !.exists = TRUE, !.repo = c, !.mgr = "partial"]
      [] o = "marker_fail" ->
           [Absent EXCEPT !.exists = TRUE, !.repo = c, !.mgr = "ok"]
      [] OTHER ->
           [Absent EXCEPT !.exists = TRUE, !.repo = c, !.mgr = "ok",
                          !.marker = c]

\* install_comfyui(snapshot, workspace) with snapshot["comfyui"] = c.
Stage_comfyui(c, nextPc, w0) ==
    IF /\ wsx.exists
       /\ wsx.marker # "none"
       /\ Strip(wsx.marker) = c
    THEN /\ UNCHANGED << wsx, pdirs, ws >>
         /\ iwork' = w0
         /\ ev' = [stage |-> "runtime", id |-> c, marker |-> wsx.marker,
                   existed |-> wsx.exists, removed |-> FALSE, ran |-> FALSE,
                   before |-> Target, after |-> Target]
         /\ Leave(TRUE, nextPc)
    ELSE \E o \in {"clone_fail_clean", "clone_fail_partial", "no_manager",
                   "mgr_fail", "marker_fail", "ok"} :
           /\ o = "no_manager" => ~snap.mgr
           /\ o \in {"mgr_fail", "marker_fail", "ok"} => snap.mgr
           /\ wsx' = Workspace_after(o, c)
           /\ pdirs' = NoPlugins
           /\ ws' = [ws EXCEPT ![1] = NoModels]
           /\ iwork' = w0 \cup (IF wsx.exists THEN {"rmtree"} ELSE {})
                          \cup {"clone"}
                          \cup (IF o \in {"mgr_fail", "marker_fail", "ok"}
                                THEN {"mgr_clone"} ELSE {})
                          \cup (IF o = "ok" THEN {"marker"} ELSE {})
           /\ ev' = [stage |-> "runtime", id |-> c, marker |-> wsx.marker,
                     existed |-> wsx.exists, removed |-> wsx.exists,
                     ran |-> TRUE, before |-> Target,
                     after |-> << wsx', pdirs', ws'[1] >>]
           /\ Leave(o = "ok", nextPc)

\* The requirement files of install's call exist once both checkouts do.
ReqFiles == wsx.repo \in Commits /\ wsx.mgr = "ok"

\* install_dependencies(python_version, req_files, workspace, no_venv).
Stage_deps(nv, nextPc, w0) ==
    IF ~nv /\ wsx.venvDone
    THEN /\ UNCHANGED << wsx, pdirs, ws >>
         /\ iwork' = w0
         /\ ev' = [stage |-> "deps", id |-> "DONE", marker |-> "DONE",
                   existed |-> TRUE, removed |-> FALSE, ran |-> FALSE,
                   before |-> Target, after |-> Target]
         /\ Leave(TRUE, nextPc)
    ELSE \E o \in {"venv_fail", "pip_fail", "marker_fail", "ok"} :
           /\ o = "venv_fail" => ~nv
           /\ o = "marker_fail" => ~nv
           /\ o \in {"marker_fail", "ok"} => ReqFiles
           /\ wsx' =
                IF nv \/ o = "venv_fail" THEN wsx
                ELSE [wsx EXCEPT !.exists = TRUE,
                                 !.venv = IF o = "pip_fail" THEN "created"
                                          ELSE "ready",
                                 !.venvDone = (o = "ok")]
           /\ UNCHANGED << pdirs, ws >>
           /\ iwork' = w0 \cup (IF nv THEN {} ELSE {"venv"})
                          \cup (IF o # "venv_fail" THEN {"pip"} ELSE {})
                          \cup (IF o = "ok" /\ ~nv THEN {"venv_marker"} ELSE {})
           /\ ev' = [stage |-> "deps", id |-> IF nv THEN "none" ELSE "DONE",
                     marker |-> "none", existed |-> wsx.venv # "none",
                     removed |-> ~nv /\ wsx.venv # "none", ran |-> TRUE,
                     before |-> Target, after |-> << wsx', pdirs', ws'[1] >>]
           /\ Leave(o = "ok", nextPc)

\* A host program calls install_comfyui on its own.
Call_comfyui ==
    /\ ipc = "idle"
    /\ icalls < MaxCalls
    /\ icalls' = icalls + 1
    /\ \E c \in Commits : Stage_comfyui(c, "idle", {})
    /\ UNCHANGED << hvars, lvars, avars, rctl, snap, ireq, iprev, mods, mi >>

\* A host program calls install_dependencies on its own.
Call_deps ==
    /\ ipc = "idle"
    /\ icalls < MaxCalls
    /\ icalls' = icalls + 1
    /\ \E nv \in BOOLEAN : Stage_deps(nv, "idle", {})
    /\ UNCHANGED << hvars, lvars, avars, rctl, snap, ireq, iprev, mods, mi >>

\* install_custom_modules(snapshot, workspace) is entered.
Plugins_begin ==
    /\ ipc = "idle"
    /\ icalls < MaxCalls
    /\ icalls' = icalls + 1
    /\ mods' \in ModuleLists
    /\ mi' = 1
    /\ ipc' = "plugins"
    /\ iout' = "running"
    /\ iwork' = {}
    /\ UNCHANGED << hvars, lvars, avars, rvars, snap, wsx, pdirs, ireq, iprev, ev >>

\* Lines 88-135: one iteration of the loop over snapshot["custom_nodes"].
Plugin_step ==
    /\ ipc = "plugins"
    /\ mi <= Len(mods)
    /\ LET m == mods[mi]
           d == DirOf(m.url)
       IN IF IsBlank(m.url)
          THEN /\ mi' = mi + 1
               /\ UNCHANGED << wsx, pdirs, ev, iwork, ipc, iout >>
          ELSE IF /\ pdirs[d].exists
                  /\ pdirs[d].marker # "none"
                  /\ Strip(pdirs[d].marker) = m.commit_hash
          THEN /\ mi' = mi + 1
               /\ ev' = [stage |-> "plugin", id |-> m.commit_hash,
                         marker |-> pdirs[d].marker, existed |-> TRUE,
                         removed |-> FALSE, ran |-> FALSE,
                         before |-> Target, after |-> Target]
               /\ UNCHANGED << wsx, pdirs, iwork, ipc, iout >>
          ELSE \E o \in {"clone_fail_clean", "clone_fail_partial", "setup_fail",
                         "marker_fail", "ok"} :
                 /\ o = "setup_fail" => HasSetup(m.url)
                 /\ pdirs' =
                      [pdirs EXCEPT ![d] =
                         CASE o = "clone_fail_clean" -> NoDir
                           [] o = "clone_fail_partial" ->
                                [NoDir EXCEPT !.exists = TRUE,
                                              !.url = "partial"]
                           [] o = "ok" ->
                                [exists |-> TRUE, marker |-> m.commit_hash,
                                 url |-> m.url, commit |-> m.commit_hash]
                           [] OTHER ->
                                [exists |-> TRUE, marker |-> "none",
                                 url |-> m.url, commit |-> m.commit_hash]]
                 /\ wsx' = IF o = "clone_fail_clean" THEN wsx
                           ELSE [wsx EXCEPT !.exists = TRUE]
                 /\ iwork' = iwork \cup (IF pdirs[d].exists THEN {"rmtree"}
                                         ELSE {}) \cup {"plugin_clone"}
                 /\ ev' = [stage |-> "plugin", id |-> m.commit_hash,
                           marker |-> pdirs[d].marker,
                           existed |-> pdirs[d].exists,
                           removed |-> pdirs[d].exists, ran |-> TRUE,
                           before |-> Target,
                           after |-> << wsx', pdirs', ws[1] >>]
                 /\ IF o = "ok"
                    THEN /\ mi' = mi + 1
                         /\ UNCHANGED << ipc, iout >>
                    ELSE /\ mi' = mi
                         /\ Leave(FALSE, "idle")
    /\ UNCHANGED << hvars, lvars, avars, rvars, snap, ireq, icalls, iprev, mods >>

\* The loop over snapshot["custom_nodes"] is exhausted.
Plugins_return ==
    /\ ipc = "plugins"
    /\ mi > Len(mods)
    /\ ipc' = "idle"
    /\ iout' = "returned"
    /\ UNCHANGED << hvars, lvars, avars, rvars, snap, wsx, pdirs, ireq, icalls, iwork, iprev,
                    ev, mods, mi >>

\* ------------------------------------------------------------------ install
\* install entered without the check of lines 460-464.
Install_begin_unchecked ==
    /\ ipc = "idle"
    /\ pc[1] = "idle"
    /\ icalls < MaxInstalls
    /\ icalls' = icalls + 1
    /\ ireq' \in Requests
    /\ iprev' = IF iout = "returned"
                THEN [ok |-> TRUE, req |-> ireq, wsx |-> wsx, pdirs |-> pdirs,
                      ws |-> ws[1],
                      resolved |-> \/ ~ireq.prepare_models
                                   \/ \A i \in Entries : Resolved(1, i)]
                ELSE NoPrev
    /\ iwork' = {}
    /\ Leave(TRUE, "comfyui")
    /\ UNCHANGED << hvars, lvars, avars, rvars, snap, wsx, pdirs, ev, mods, mi >>

\* install(cpack, workspace, preheat, prepare_models, all_models, no_venv) is
\* entered; a snapshot without "pips" is refused (lines 459-464).
Install_begin ==
    /\ ipc = "idle"
    /\ pc[1] = "idle"
    /\ icalls < MaxInstalls
    /\ icalls' = icalls + 1
    /\ ireq' \in Requests
    /\ iprev' = IF iout = "returned"
                THEN [ok |-> TRUE, req |-> ireq, wsx |-> wsx, pdirs |-> pdirs,
                      ws |-> ws[1],
                      resolved |-> \/ ~ireq.prepare_models
                                   \/ \A i \in Entries : Resolved(1, i)]
                ELSE NoPrev
    /\ iwork' = {}
    /\ Leave(snap.pips, "comfyui")
    /\ UNCHANGED << hvars, lvars, avars, rvars, snap, wsx, pdirs, ev, mods, mi >>

\* Line 466.
Install_comfyui ==
    /\ ipc = "comfyui"
    /\ Stage_comfyui(ireq.commit, "deps", iwork)
    /\ UNCHANGED << hvars, lvars, avars, rctl, snap, ireq, icalls, iprev, mods, mi >>

\* Lines 467-478.
Install_deps ==
    /\ ipc = "deps"
    /\ Stage_deps(ireq.no_venv, "restore", iwork)
    /\ UNCHANGED << hvars, lvars, avars, rctl, snap, ireq, icalls, iprev, mods, mi >>

\* Lines 479-490: cm-cli.py restore-snapshot in the workspace.
Install_restore ==
    /\ ipc = "restore"
    /\ \E ok \in BOOLEAN :
         /\ wsx' = IF ok THEN [wsx EXCEPT !.restored = TRUE] ELSE wsx
         /\ Leave(ok, "inputs")
    /\ iwork' = iwork \cup {"restore"}
    /\ UNCHANGED << hvars, lvars, avars, rvars, snap, pdirs, ireq, icalls, iprev, ev, mods,
                    mi >>

\* Lines 492-496: the package's input files are copied into the workspace.
Install_inputs ==
    /\ ipc = "inputs"
    /\ \E ok \in BOOLEAN :
         /\ wsx' = IF ok THEN [wsx EXCEPT !.inputs = TRUE] ELSE wsx
         /\ Leave(ok, IF ireq.prepare_models THEN "models1" ELSE "preheat")
    /\ iwork' = iwork \cup {"inputs"}
    /\ UNCHANGED << hvars, lvars, avars, rvars, snap, pdirs, ireq, icalls, iprev, ev, mods,
                    mi >>

\* Lines 497-504 with the first pass allowed to download.
Install_models1_download ==
    /\ ipc = "models1"
    /\ BeginWith(1, TRUE, FALSE, TRUE)
    /\ ipc' = "pass1"
    /\ UNCHANGED << hvars, lvars, avars, snap, wsx, pdirs, ireq, icalls, iwork, iout, iprev,
                    ev, mods, mi >>

\* Lines 497-504: retrieve_models(download=False, pack_dir=pack_dir).
Install_models1 ==
    /\ ipc = "models1"
    /\ BeginWith(1, FALSE, FALSE, TRUE)
    /\ ipc' = "pass1"
    /\ UNCHANGED << hvars, lvars, avars, snap, wsx, pdirs, ireq, icalls, iwork, iout, iprev,
                    ev, mods, mi >>

\* The first pass is over: its exception, if any, leaves install.
Install_after1 ==
    /\ ipc = "pass1"
    /\ pc[1] = "idle"
    /\ Leave(last[1] # "raised", "preheat")
    /\ UNCHANGED << hvars, lvars, avars, rvars, snap, wsx, pdirs, ireq, icalls, iwork, iprev,
                    ev, mods, mi >>

\* Lines 506-514: the server is started and stopped once, if asked for.
Install_preheat ==
    /\ ipc = "preheat"
    /\ LET nextPc == IF ireq.prepare_models THEN "models2" ELSE "idle"
       IN IF ireq.preheat
          THEN /\ \E ok \in BOOLEAN : Leave(ok, nextPc)
               /\ iwork' = iwork \cup {"preheat"}
          ELSE /\ Leave(TRUE, nextPc)
               /\ iwork' = iwork
    /\ UNCHANGED << hvars, lvars, avars, rvars, snap, wsx, pdirs, ireq, icalls, iprev, ev,
                    mods, mi >>

\* Lines 515-522: retrieve_models(all_models=all_models, pack_dir=pack_dir).
Install_models2 ==
    /\ ipc = "models2"
    /\ BeginWith(1, TRUE, ireq.all_models, TRUE)
    /\ ipc' = "pass2"
    /\ UNCHANGED << hvars, lvars, avars, snap, wsx, pdirs, ireq, icalls, iwork, iout, iprev,
                    ev, mods, mi >>

\* The second pass is over: install returns, or the pass's exception leaves it.
Install_after2 ==
    /\ ipc = "pass2"
    /\ pc[1] = "idle"
    /\ Leave(last[1] # "raised", "idle")
    /\ UNCHANGED << hvars, lvars, avars, rvars, snap, wsx, pdirs, ireq, icalls, iwork, iprev,
                    ev, mods, mi >>

\* install is interrupted between two steps (KeyboardInterrupt, or the
\* process is ended): nothing runs after that point and no handler of
\* install or retrieve_models cleans up what is on disk.
Cancel ==
    /\ ipc # "idle"
    /\ ipc' = "idle"
    /\ iout' = "cancelled"
    /\ pc' = [pc EXCEPT ![1] = "idle"]
    /\ last' = [last EXCEPT ![1] = IF pc[1] = "idle" THEN @ ELSE "cancelled"]
    /\ UNCHANGED << hvars, lvars, avars, pkg, store, ws, idx, opt, prompts, passes, arg,
                    how, ws0, net, prevDl, writes, snap, wsx, pdirs, ireq,
                    icalls, iwork, iprev, ev, mods, mi >>

\* ------------------------------------------------------- specifications
\* What a workspace path may hold before the first pass.
InitNodes == {None, File("g1"), File("junk"), Link("h1"), Link("h2")}

ResolverIdle ==
    /\ store = [h \in Hashes |-> None]
    /\ pc = [p \in Procs |-> "idle"]
    /\ idx = [p \in Procs |-> 1]
    /\ opt = [p \in Procs |-> NoOpt]
    /\ prompts = [p \in Procs |-> 0]
    /\ passes = 0
    /\ arg = [p \in Procs |-> "-"]
    /\ how = [p \in Procs |-> [i \in Slots |-> "-"]]
    /\ last = [p \in Procs |-> "none"]
    /\ net = [p \in Procs |-> FALSE]
    /\ prevDl = [p \in Procs |-> FALSE]
    /\ writes = [h \in Hashes |-> 0]

HashIdle ==
    /\ hclock = 1
    /\ cacheFile = [st |-> "absent", map |-> EmptyCache]
    /\ hbatches = 0
    /\ bpc = [b \in Batchers |-> "idle"]
    /\ bargs = [b \in Batchers |-> [filepaths |-> << >>, cache_only |-> FALSE]]
    /\ bi = [b \in Batchers |-> 1]
    /\ bcache = [b \in Batchers |-> EmptyCache]
    /\ bnew = [b \in Batchers |-> EmptyCache]
    /\ bres = [b \in Batchers |-> [f \in Paths |-> Unset]]
    /\ bstat = [b \in Batchers |-> NoStat]
    /\ bobs = [b \in Batchers |-> [f \in Paths |-> NoStat]]
    /\ bcomp = [b \in Batchers |-> {}]
    /\ bout = [b \in Batchers |-> "none"]
    /\ bload = [b \in Batchers |-> EmptyCache]
    /\ bread = [b \in Batchers |-> EmptyCache]

\* The last operation on the dev server, the branch it took and what the
\* handler answered.
NoOp == [op |-> "none", path |-> "none", says |-> "none"]

\* No dev server was started and no handler was called.
DevIdle ==
    /\ dproc = 0
    /\ dlive = {}
    /\ dwdt = 0
    /\ dfeed = 0
    /\ drun = 0
    /\ ddirs = {}
    /\ dnow = 1
    /\ dstarts = 0
    /\ dop = NoOp

NoCall == [fn |-> "none"]

ApiIdle ==
    /\ DevIdle
    /\ qin = NoCall
    /\ qout = NoCall

LinkIdle ==
    /\ lsha = "h1"
    /\ lres = "none"
    /\ lpre = << None, [h \in Hashes |-> None] >>

InstallIdle ==
    /\ pdirs = NoPlugins
    /\ ipc = "idle"
    /\ ireq = NoRequest
    /\ icalls = 0
    /\ iwork = {}
    /\ iout = "none"
    /\ iprev = NoPrev
    /\ ev = NoEvent
    /\ mods = << >>
    /\ mi = 1

\* The resolver and the hash cache on their own: the workspace exists.
NoInstall ==
    /\ InstallIdle
    /\ LinkIdle
    /\ ApiIdle
    /\ snap = [pips |-> TRUE, mgr |-> TRUE]
    /\ wsx = [Provisioned EXCEPT !.marker = "c1"]

InitCommon ==
    /\ pkg \in Packages
    /\ ResolverIdle
    /\ HashIdle
    /\ NoInstall
    /\ hfiles = [f \in Paths |-> Missing]

\* Workspace 1 holds anything at its model paths, workspace 2 is fresh.
InitSeq ==
    /\ InitCommon
    /\ ws \in [Procs -> [Slots -> InitNodes]]
    /\ \A i \in Slots : ws[2][i] = None
    /\ \A p \in Procs, i \in Slots : i > Len(pkg.models) => ws[p][i] = None
    /\ ws0 = ws

Step(p) ==
    \/ PassReturn(p)
    \/ EntryCheck(p)
    \/ Adopt_move(p)
    \/ Adopt_link(p)
    \/ Cached_link(p)
    \/ Bundled_copy_open(p)
    \/ Bundled_copy_done(p)
    \/ Bundled_link(p)
    \/ Download_open(p)
    \/ Download_done(p)
    \/ Verify(p)
    \/ Unlink(p)
    \/ Prompt(p)
    \/ Local_copy_open(p)
    \/ Local_copy_done(p)
    \/ Manual_link(p)

NextSeq == \E p \in Procs : StartPassSeq(p) \/ Step(p)

SpecSeq == InitSeq /\ [][NextSeq]_vars

\* Two installers on one host: workspace 1 may hold a model file already.
InitNodesConc == {None, File("g1")}

InitConc ==
    /\ InitCommon
    /\ ws \in [Procs -> [Slots -> InitNodesConc]]
    /\ \A i \in Slots : ws[2][i] = None
    /\ \A p \in Procs, i \in Slots : i > Len(pkg.models) => ws[p][i] = None
    /\ ws0 = ws

NextConc == \E p \in Procs : StartPassConc(p) \/ Step(p)

SpecConc == InitConc /\ [][NextConc]_vars

\* The hash cache on its own: two batch processes and files that change.
InitHash ==
    /\ pkg = [models |-> << >>, blobs |-> NoBlobs]
    /\ ws = [p \in Procs |-> [i \in Slots |-> None]]
    /\ ws0 = ws
    /\ ResolverIdle
    /\ HashIdle
    /\ NoInstall
    /\ hfiles \in [Paths -> {Missing, HFile("g1", 0)}]

NextHash ==
    \/ \E b \in Batchers :
         \/ Batch_begin(b)
         \/ Batch_path(b)
         \/ Batch_hash(b)
         \/ Batch_reread(b)
         \/ Batch_write_open(b)
         \/ Batch_write_done(b)
    \/ \E f \in Paths : File_modify(f)

SpecHash == InitHash /\ [][NextHash]_vars

\* install on one workspace, called again and again: the workspace is absent
\* or was set up by other tooling, the store is empty.
Snapshots ==
    { [pips |-> TRUE, mgr |-> TRUE], [pips |-> TRUE, mgr |-> FALSE],
      [pips |-> FALSE, mgr |-> TRUE] }

InitInstall ==
    /\ pkg \in Packages
    /\ ResolverIdle
    /\ HashIdle
    /\ InstallIdle
    /\ LinkIdle
    /\ ApiIdle
    /\ hfiles = [f \in Paths |-> Missing]
    /\ snap \in Snapshots
    /\ wsx \in {Absent, Provisioned}
    /\ ws \in [Procs -> [Slots -> InitNodesConc]]
    /\ ws[2] = NoModels
    /\ \A i \in Slots :
         (~wsx.exists \/ i > Len(pkg.models)) => ws[1][i] = None
    /\ ws0 = ws

NextInstall ==
    \/ Install_begin
    \/ Install_comfyui
    \/ Install_deps
    \/ Install_restore
    \/ Install_inputs
    \/ Install_models1
    \/ Install_after1
    \/ Install_preheat
    \/ Install_models2
    \/ Install_after2
    \/ Step(1)

SpecInstall == InitInstall /\ [][NextInstall]_vars

\* install called again and again, each call possibly interrupted.
NextCancel ==
    \/ NextInstall
    \/ Cancel

SpecCancel == InitInstall /\ [][NextCancel]_vars

\* The stages called one by one, in any order, with any arguments.
InitStages ==
    /\ pkg = [models |-> << >>, blobs |-> NoBlobs]
    /\ ResolverIdle
    /\ HashIdle
    /\ InstallIdle
    /\ LinkIdle
    /\ ApiIdle
    /\ hfiles = [f \in Paths |-> Missing]
    /\ snap \in Snapshots
    /\ wsx \in {Absent, Provisioned}
    /\ ws = [p \in Procs |-> NoModels]
    /\ ws0 = ws

NextStages ==
    \/ Call_comfyui
    \/ Call_deps
    \/ Plugins_begin
    \/ Plugin_step
    \/ Plugins_return

SpecStages == InitStages /\ [][NextStages]_vars

\* create_model_symlink applied to any target node, store and hash.
StoreNodes == {None, File("g1"), File("junk"), Link("h1"), Link("h2")}
TargetNodes == {None, Link("h1"), Link("h2")} \cup {File(c) : c \in Contents}

InitLink ==
    /\ pkg = [models |-> << >>, blobs |-> NoBlobs]
    /\ HashIdle
    /\ InstallIdle
    /\ ApiIdle
    /\ hfiles = [f \in Paths |-> Missing]
    /\ snap = [pips |-> TRUE, mgr |-> TRUE]
    /\ wsx = [Provisioned EXCEPT !.marker = "c1"]
    /\ pc = [p \in Procs |-> "idle"]
    /\ idx = [p \in Procs |-> 1]
    /\ opt = [p \in Procs |-> NoOpt]
    /\ prompts = [p \in Procs |-> 0]
    /\ passes = 0
    /\ arg = [p \in Procs |-> "-"]
    /\ how = [p \in Procs |-> [i \in Slots |-> "-"]]
    /\ last = [p \in Procs |-> "none"]
    /\ net = [p \in Procs |-> FALSE]
    /\ prevDl = [p \in Procs |-> FALSE]
    /\ writes = [h \in Hashes |-> 0]
    /\ store \in [Hashes -> StoreNodes]
    /\ \E n \in TargetNodes :
         ws = [p \in Procs |-> [i \in Slots |->
                 IF p = 1 /\ i = 1 THEN n ELSE None]]
    /\ ws0 = ws
    /\ lsha \in Hashes
    /\ lres = "none"
    /\ lpre = << None, [h \in Hashes |-> None] >>

NextLink == Call_link

SpecLink == InitLink /\ [][NextLink]_vars

\* ============================================== download_file: the request
\* The urls download_file is called with: a host and the rest of the url.
UrlHosts ==
    {"huggingface.co", "cdn-lfs.huggingface.co", "civitai.com",
     "huggingface.co.evil.example", "evil.example"}
UrlRests == {"/m/model.bin", "/huggingface/model.bin", "/dl?ref=huggingface.co"}

\* The pieces of a url that contain the text "huggingface".
WithWord ==
    {"huggingface.co", "cdn-lfs.huggingface.co", "huggingface.co.evil.example",
     "/huggingface/model.bin", "/dl?ref=huggingface.co"}

\* "huggingface" in url: a substring test on the whole url.
huggingface_in(url) == url.host \in WithWord \/ url.rest \in WithWord

\* os.getenv("HF_TOKEN"): unset, set to the empty string, or set to a token.
Tokens == {"unset", "", "hf_secret"}
Truthy(token) == token \notin {"unset", ""}

\* Lines 223-237: the request download_file sends, through curl when
\* shutil.which finds it and through urllib otherwise, with its
\* Authorization header.
download_request(url, token, curl) ==
    [fn |-> "download_file",
     via |-> IF curl THEN "curl" ELSE "urllib",
     host |-> url.host,
     authorization |-> IF Truthy(token) /\ huggingface_in(url)
                       THEN token ELSE "none"]

Call_download ==
    /\ qin.fn = "download_file"
    /\ qout = NoCall
    /\ qout' = download_request(qin.url, qin.token, qin.curl)
    /\ UNCHANGED << rvars, hvars, ivars, lvars, dvars, qin >>

\* The answer of _validate_workflow: None, or a json_response without a
\* status argument, which aiohttp sends with status 200. cause names what
\* went wrong in the request, as the handler's branch tells it.
validate_workflow(r) ==
    IF r.workflow = "ok"
    THEN NoCall
    ELSE [fn |-> r.fn, status |-> 200, result |-> "error",
          cause |-> "validation"]

\* POST /bentoml/pack. An exception outside the try of the output_dir branch
\* reaches aiohttp, which answers 500 with no JSON body.
pack_workspace(r) ==
    CASE r.output_dir = "invalid" ->
           [fn |-> r.fn, status |-> 400, result |-> "error",
            cause |-> "validation"]
      [] r.output_dir = "valid" ->
           IF r.fails \in {"prepare", "write"}
           THEN [fn |-> r.fn, status |-> 500, result |-> "error",
                 cause |-> "execution"]
           ELSE [fn |-> r.fn, status |-> 200, result |-> "success",
                 cause |-> "none"]
      [] r.output_dir = "none" ->
           IF r.fails \in {"prepare", "write"}
           THEN [fn |-> r.fn, status |-> 500, result |-> "absent",
                 cause |-> "execution"]
           ELSE [fn |-> r.fn, status |-> 200, result |-> "absent",
                 cause |-> "none"]

\* POST /bentoml/serve.
serve(r) ==
    IF validate_workflow(r) # NoCall THEN validate_workflow(r)
    ELSE IF r.busy
    THEN [fn |-> r.fn, status |-> 200, result |-> "error",
          cause |-> "validation"]
    ELSE IF r.fails = "start"
    THEN [fn |-> r.fn, status |-> 200, result |-> "error",
          cause |-> "execution"]
    ELSE [fn |-> r.fn, status |-> 200, result |-> "success",
          cause |-> "none"]

\* POST /bentoml/build. _prepare_pack runs outside the try.
build_bento_api(r) ==
    IF validate_workflow(r) # NoCall THEN validate_workflow(r)
    ELSE IF r.fails = "prepare"
    THEN [fn |-> r.fn, status |-> 500, result |-> "absent",
          cause |-> "execution"]
    ELSE IF r.fails = "build" \/ (r.push /\ r.fails = "push")
    THEN [fn |-> r.fn, status |-> 200, result |-> "error",
          cause |-> "execution"]
    ELSE [fn |-> r.fn, status |-> 200, result |-> "success",
          cause |-> "none"]

Call_http ==
    /\ qin.fn \in {"pack_workspace", "serve", "build_bento_api"}
    /\ qout = NoCall
    /\ qout' = CASE qin.fn = "pack_workspace" -> pack_workspace(qin)
                 [] qin.fn = "serve" -> serve(qin)
                 [] qin.fn = "build_bento_api" -> build_bento_api(qin)
    /\ UNCHANGED << rvars, hvars, ivars, lvars, dvars, qin >>

\* download_file called with any url, credential and tool, or a handler
\* called with any request and any failure of what it runs.
InitCall ==
    /\ pkg = [models |-> << >>, blobs |-> NoBlobs]
    /\ ws = [p \in Procs |-> NoModels]
    /\ ws0 = ws
    /\ ResolverIdle
    /\ HashIdle
    /\ hfiles = [f \in Paths |-> Missing]
    /\ InstallIdle
    /\ LinkIdle
    /\ snap = [pips |-> TRUE, mgr |-> TRUE]
    /\ wsx = [Provisioned EXCEPT !.marker = "c1"]
    /\ DevIdle
    /\ qout = NoCall
    /\ \/ qin \in { [fn |-> "download_file",
                     url |-> [host |-> h, rest |-> r],
                     token |-> t, curl |-> c] :
                    h \in UrlHosts, r \in UrlRests, t \in Tokens,
                    c \in BOOLEAN }
       \/ qin \in { [fn |-> f, workflow |-> w, output_dir |-> o,
                     busy |-> b, push |-> u, fails |-> x] :
                    f \in {"pack_workspace", "serve", "build_bento_api"},
                    w \in {"empty", "no input", "no output", "ok"},
                    o \in {"none", "invalid", "valid"},
                    b \in BOOLEAN, u \in BOOLEAN,
                    x \in {"none", "prepare", "write", "start", "build",
                           "push"} }

NextCall ==
    \/ Call_download
    \/ Call_http

SpecCall == InitCall /\ [][NextCall]_vars

\* ------------------------------------------------ the supervised dev server
\* Time is counted in ticks of twelve hours and starts at 1, so that the
\* last_feed = 0 that stop leaves is earlier than every reading of the clock.
MaxTime == 5
MaxStarts == 3

\* TIMEOUT = 3600 * 24 seconds, in ticks.
TIMEOUT == 2

\* The class attributes of DevServer with the processes that are alive and
\* the run directories that exist: proc, watch_dog_task and run_dir are 0
\* for None and the number of the start that made them otherwise.
DevState ==
    [proc |-> dproc, live |-> dlive, wdt |-> dwdt, feed |-> dfeed,
     run |-> drun, dirs |-> ddirs]

\* Lines 514-527 without the rmtree of the run directory.
stop_keeps_run_dir(s) ==
    LET a == IF s.proc # 0
             THEN [s EXCEPT !.live = @ \ {s.proc}, !.proc = 0] ELSE s
        b == IF a.wdt # 0 THEN [a EXCEPT !.wdt = 0, !.feed = 0] ELSE a
    IN  b

\* DevServer.stop: terminate and wait for the process, cancel the watchdog
\* task and reset last_feed, remove the run directory.
stop(s) ==
    LET a == IF s.proc # 0
             THEN [s EXCEPT !.live = @ \ {s.proc}, !.proc = 0] ELSE s
        b == IF a.wdt # 0 THEN [a EXCEPT !.wdt = 0, !.feed = 0] ELSE a
        c == IF b.run # 0
             THEN [b EXCEPT !.dirs = @ \ {b.run}, !.run = 0] ELSE b
    IN  c

\* How far DevServer.start gets: mkdtemp raises, a copy into the run
\* directory or Popen raises, or the process is launched.
StartOutcomes == {"mkdtemp_raises", "copy_raises", "ok"}

\* DevServer.start at time now, as start number id.
start(s, id, now, outcome) ==
    LET a == stop(s)
        b == [a EXCEPT !.run = id, !.dirs = @ \cup {id}]
        c == [b EXCEPT !.proc = id, !.live = @ \cup {id},
                       !.wdt = id, !.feed = now]
    IN  CASE outcome = "mkdtemp_raises" -> a
          [] outcome = "copy_raises" -> b
          [] outcome = "ok" -> c

Set(s) ==
    /\ dproc' = s.proc
    /\ dlive' = s.live
    /\ dwdt' = s.wdt
    /\ dfeed' = s.feed
    /\ drun' = s.run
    /\ ddirs' = s.dirs

\* POST /bentoml/serve: the workflow is validated, the running server is
\* stopped, the port is probed and the server is started.
Serve(valid, busy, outcome) ==
    /\ dstarts < MaxStarts
    /\ dstarts' = dstarts + 1
    /\ IF ~valid
       THEN /\ Set(DevState)
            /\ dop' = [op |-> "serve", path |-> "invalid", says |-> "error"]
       ELSE IF busy
       THEN /\ Set(stop(DevState))
            /\ dop' = [op |-> "serve", path |-> "port in use", says |-> "error"]
       ELSE /\ Set(start(stop(DevState), dstarts + 1, dnow, outcome))
            /\ dop' = [op |-> "serve", path |-> outcome,
                       says |-> IF outcome = "ok" THEN "success" ELSE "error"]
    /\ UNCHANGED << rvars, hvars, ivars, lvars, qvars, dnow >>

\* GET /bentoml/serve/heartbeat: feed_watch_dog and its answer.
Heartbeat ==
    /\ IF dproc # 0
       THEN IF dproc \in dlive
            THEN /\ Set([DevState EXCEPT !.feed = dnow])
                 /\ dop' = [op |-> "heartbeat", path |-> "alive",
                            says |-> "ready"]
            ELSE /\ Set(stop(DevState))
                 /\ dop' = [op |-> "heartbeat", path |-> "exited",
                            says |-> "Server is not running"]
       ELSE /\ Set(DevState)
            /\ dop' = [op |-> "heartbeat", path |-> "no process",
                       says |-> "Server is not running"]
    /\ UNCHANGED << rvars, hvars, ivars, lvars, qvars, dnow, dstarts >>

\* POST /bentoml/serve/terminate.
Terminate ==
    /\ Set(stop(DevState))
    /\ dop' = [op |-> "terminate", path |-> "stop", says |-> "success"]
    /\ UNCHANGED << rvars, hvars, ivars, lvars, qvars, dnow, dstarts >>

\* The supervised process exits on its own.
Proc_exit ==
    /\ dproc \in dlive
    /\ dlive' = dlive \ {dproc}
    /\ UNCHANGED << rvars, hvars, ivars, lvars, qvars, dproc, dwdt, dfeed,
                    drun, ddirs, dnow, dstarts, dop >>

\* time.time() advances.
Tick ==
    /\ dnow < MaxTime
    /\ dnow' = dnow + 1
    /\ UNCHANGED << rvars, hvars, ivars, lvars, qvars, dproc, dlive, dwdt,
                    dfeed, drun, ddirs, dstarts, dop >>

\* A round of watch_dog that stops the server although the window has
\* not passed.
Watchdog_eager ==
    /\ dwdt # 0
    /\ Set(stop(DevState))
    /\ dop' = [op |-> "watch_dog", path |-> "expired", says |-> "none"]
    /\ UNCHANGED << rvars, hvars, ivars, lvars, qvars, dnow, dstarts >>

\* A round of the watch_dog task that finds the window passed; the rounds
\* that find it open change nothing.
Watchdog ==
    /\ dwdt # 0
    /\ dfeed + TIMEOUT < dnow
    /\ Set(stop(DevState))
    /\ dop' = [op |-> "watch_dog", path |-> "expired", says |-> "none"]
    /\ UNCHANGED << rvars, hvars, ivars, lvars, qvars, dnow, dstarts >>

InitDev ==
    /\ pkg = [models |-> << >>, blobs |-> NoBlobs]
    /\ ws = [p \in Procs |-> NoModels]
    /\ ws0 = ws
    /\ ResolverIdle
    /\ HashIdle
    /\ hfiles = [f \in Paths |-> Missing]
    /\ InstallIdle
    /\ LinkIdle
    /\ snap = [pips |-> TRUE, mgr |-> TRUE]
    /\ wsx = [Provisioned EXCEPT !.marker = "c1"]
    /\ ApiIdle

NextDev ==
    \/ \E valid \in BOOLEAN, busy \in BOOLEAN, outcome \in StartOutcomes :
         Serve(valid, busy, outcome)
    \/ Heartbeat
    \/ Terminate
    \/ Proc_exit
    \/ Tick
    \/ Watchdog

SpecDev == InitDev /\ [][NextDev]_vars

\* The event loop runs the watch_dog task every 0.1 s: the handlers are
\* synchronous between their awaits, so the loop always comes back to it.
SpecDevFair == SpecDev /\ WF_vars(Watchdog)

\* ------------------------------------------------ properties of the resolver
\* C1: bytes of a download whose SHA-256 differs from the entry's sha256 are
\* never the object a later pass finds at <store>/<sha256> (no pass running),
\* and never, in any state, what a workspace symlink of any installer leads to.
C1_IntegrityEnforced ==
    /\ (\A p \in Procs : pc[p] = "idle")
         => \A h \in Hashes : ReadStore(store, h) # File("corrupt")
    /\ \A p \in Procs, i \in Slots :
         ws[p][i].k = "link" => ReadStore(store, ws[p][i].v) # File("corrupt")

\* C2: once retrieve_models has resolved two entries with the same sha256, in
\* the same or in different workspaces, whether their workspace paths were
\* empty or already held the asset as a plain file, the store holds one object
\* at that hash and both workspace paths are symlinks to it.
HeldAsset(p, i) == ws0[p][i] \in {None, File(Good(ShaOf(i)))}

C2_Dedup ==
    \A p \in Procs, q \in Procs :
      \A i \in Entries, j \in Entries :
        ( /\ PassOver(p) /\ PassOver(q)
          /\ << p, i >> # << q, j >>
          /\ ShaOf(i) = ShaOf(j)
          /\ HeldAsset(p, i) /\ HeldAsset(q, j)
          /\ Resolved(p, i) /\ Resolved(q, j) )
        => /\ store[ShaOf(i)].k = "file"
           /\ ws[p][i] = Link(ShaOf(i))
           /\ ws[q][j] = Link(ShaOf(j))

\* C3: a plain file at the entry's workspace path whose hash is the entry's
\* sha256, with no object of that hash in the store, is adopted: once the
\* entry has been handled the store holds the file's bytes at <store>/<sha256>
\* as one regular file and the workspace path is a symlink to it, no longer a
\* copy of the bytes.
AdoptedGood(p, i) ==
    /\ how[p][i] = "adopt"
    /\ ws0[p][i] = File(Good(ShaOf(i)))
    /\ (idx[p] > i \/ pc[p] = "idle")

C7_DownloadThenLink ==
    \A p \in Procs, i \in Entries :
      ( /\ PassOver(p)
        /\ passes = 1
        /\ opt[p].download
        /\ ~pkg.models[i].disabled /\ pkg.models[i].source
        /\ ws0[p][i] = None
        /\ how[p][i] = "download" )
      => /\ store[ShaOf(i)] = File(Good(ShaOf(i)))
         /\ ws[p][i] = Link(ShaOf(i))

\* C8: after a fetch-enabled pass resolved an entry by download, a pass with
\* download=False makes no network call, asks the operator nothing and leaves
\* every workspace path as it was.
C8_NoFetchPassIsNoop ==
    \A p \in Procs :
      (PassOver(p) /\ prevDl[p] /\ ~opt[p].download)
      => /\ ~net[p]
         /\ prompts[p] = 0
         /\ ws[p] = ws0[p]

\* C9: over passes run one after another, <store>/<h> is written at most once
\* for each hash h.
C9_WriteOnce == \A h \in Hashes : writes[h] <= 1

\* C10: under any interleaving of two installers, an object present at
\* <store>/<h> is changed or removed only by the process that is in the middle
\* of writing it (every write is create-if-absent, nobody overwrites or removes
\* another's object), and no workspace path is linked to an object that is
\* still being written.
Writing(p, h) ==
    /\ pc[p] \in {"bcopying", "lcopying", "dling", "mdling", "verify", "mverify",
                  "unlink", "munlink"}
    /\ CurSha(p) = h

C10_CreateIfAbsent ==
    \A h \in Hashes :
      (store[h] # None /\ store'[h] # store[h])
      => \E p \in Procs : pc'[p] # pc[p] /\ Writing(p, h)

C10_NoLinkToPartial ==
    \A p \in Procs, i \in Slots :
      ws[p][i].k = "link" => ReadStore(store, ws[p][i].v) # File("partial")

C10_LockFreeSafe == [][C10_CreateIfAbsent]_vars /\ []C10_NoLinkToPartial

\* ---------------------------------------------- properties of the hash cache
\* The cache as read at batch start holds an entry for f whose size and
\* change-time are those the batch saw on the file.
ValidEntry(b, f) ==
    /\ bobs[b][f] # NoStat
    /\ bcache[b][f] # NoEntry
    /\ bcache[b][f].size = bobs[b][f].size
    /\ bcache[b][f].birthtime = bobs[b][f].ctime

\* C4: for an existing file whose cache entry (in the cache the batch read at
\* its start) has the file's current size and change-time, the batch returns
\* the cached hash and starts no hash computation for it, whatever cache_only.
C4_CacheValidity ==
    \A b \in Batchers, f \in Paths :
      (bpc[b] \in {"loop", "hash"} /\ ValidEntry(b, f))
      => /\ bres[b][f] = bcache[b][f].sha256
         /\ f \notin bcomp[b]

C4_Witness ==
    \E b \in Batchers, f \in Paths :
      /\ bpc[b] = "loop"
      /\ bi[b] > Len(bargs[b].filepaths)
      /\ ValidEntry(b, f)
      /\ bargs[b].cache_only

\* ------------------------------------------------ properties of the installer
\* The clone and provisioning work of a call.
CloneOrProvision == {"rmtree", "clone", "mgr_clone", "venv"}

\* A second install has returned; the first returned too, had the same
\* arguments and snapshot, and resolved every model entry.
SecondInstallOver ==
    /\ ipc = "idle"
    /\ iout = "returned"
    /\ iprev.ok
    /\ iprev.req = ireq
    /\ iprev.resolved

\* C5: a second install with the same snapshot, on the workspace a first
\* successful install produced, ends in the same state, does no runtime clone,
\* no manager clone and no environment provisioning, and leaves every marker
\* as it was.
C5_InstallIdempotent ==
    SecondInstallOver
    => /\ Target = << iprev.wsx, iprev.pdirs, iprev.ws >>
       /\ iwork \cap CloneOrProvision = {}
       /\ iwork \cap {"marker", "venv_marker"} = {}

\* The stage half of C5 on its own: no clone, no provisioning, markers kept.
C5_NoRedundantStageWork ==
    SecondInstallOver
    => /\ iwork \cap CloneOrProvision = {}
       /\ iwork \cap {"marker", "venv_marker"} = {}
       /\ wsx = iprev.wsx

\* The identifier a marker's text records.
RecordedId(m) ==
    CASE m \in {"c1", "c1\n"} -> "c1"
      [] m \in {"c2", "c2\n"} -> "c2"
      [] OTHER -> m

\* The marker the stage found is absent or records another identifier than
\* the one requested.
Stale == ev.marker = "none" \/ RecordedId(ev.marker) # ev.id

C11_StoreNeverDeletes ==
    [][\A h \in Hashes :
         store[h] = File(Good(h)) => store'[h].k = "file"]_vars

\* C12: create_model_symlink on a target that is a regular file raises and
\* leaves the file, its content and the store as they were.
C12_LinkConflict ==
    (lres # "none" /\ lpre[1].k = "file")
    => /\ lres = "raised"
       /\ ws[1][1] = lpre[1]
       /\ store = lpre[2]

C12_Witness ==
    /\ lres = "raised"
    /\ lpre[1].k = "file"
    /\ lpre[2][lsha].k = "file"

\* --------------------------------------------- properties of the entry tests
\* The steps the resolution order allows for the entry process p is about to
\* test: that of the first of the eight conditions that holds.  A plain file
\* at the workspace path is adopted; for a symlink there (an entry linked
\* before) the order leaves open whether it is taken up again.  `adoptAlways`
\* says whether the plain file is adopted whatever the store holds (the order
\* as written) or only when the store lacks the hash.
FirstMatch(p, adoptAlways) ==
    LET e == Cur(p)
        n == ws[p][idx[p]]
    IN  IF e.sha = NoSha THEN {"nosha"}
        ELSE IF Exists(store, n)
        THEN IF n.k = "link" THEN {"move", "present"}
             ELSE IF adoptAlways \/ ~Exists(store, store[e.sha])
             THEN {"move"} ELSE {"present"}
        ELSE IF Exists(store, store[e.sha]) THEN {"link_cached"}
        ELSE IF e.disabled /\ ~opt[p].all_models THEN {"disabled"}
        ELSE IF e.bundled /\ opt[p].pack /\ pkg.blobs[e.sha] # "none"
        THEN {"bcopy"}
        ELSE IF ~opt[p].download THEN {"nofetch"}
        ELSE IF e.source THEN {"dl"}
        ELSE {"prompt"}

\* Process p leaves the tests for one entry in this step.
Tested(p) ==
    /\ pc[p] = "check"
    /\ idx[p] <= NumModels
    /\ (pc'[p] # "check" \/ idx'[p] # idx[p])

\* The branch taken in that step: the outcome recorded for a skipped entry,
\* else the position the process moves to.
Taken(p) ==
    IF idx'[p] # idx[p] THEN how'[p][idx[p]] ELSE pc'[p]

Skips == {"nosha", "present", "disabled", "nofetch"}

OrderFollowed(adoptAlways) ==
    \A p \in Procs :
      Tested(p) =>
        /\ Taken(p) \in FirstMatch(p, adoptAlways)
        /\ store' = store
        /\ ws' = ws
        /\ prompts' = prompts
        /\ net' = net
        /\ Taken(p) \in Skips => idx'[p] = idx[p] + 1

\* C13: for every entry the first condition that holds, in the order no hash,
\* file at the workspace path (adopt and link), hash in the store (link),
\* disabled, bundled, fetch disabled, remote source, manual, decides what is
\* done, and choosing it has no side effect of a later step.
C13_FirstMatchWins == [][OrderFollowed(TRUE)]_vars

\* The same order with adoption only when the store lacks the hash.
C13_OrderExceptAdoption == [][OrderFollowed(FALSE)]_vars

\* C14: an error while resolving one entry stays with that entry: no pass of
\* retrieve_models is left by an exception, so every pass goes on to the
\* entries after the failing one.
C14_ErrorIsolation == \A p \in Procs : last[p] # "raised"

\* ------------------------------------------------ more of the hash cache
\* Path f exists when batch b handles it and the cache the batch loaded has no
\* entry for it with the file's size and change-time.
CacheMiss(b, f) ==
    /\ bobs[b][f] # NoStat
    /\ ~ (/\ bload[b][f] # NoEntry
          /\ bload[b][f].size = bobs[b][f].size
          /\ bload[b][f].birthtime = bobs[b][f].ctime)

\* Batch b completes its save in this step.
Saves(b) == bpc[b] = "writing" /\ bpc'[b] = "idle" /\ cacheFile'.st = "ok"

C15_Unknown ==
    \A b \in Batchers, f \in Paths :
      (bargs[b].cache_only /\ CacheMiss(b, f))
      => /\ bres[b][f] = ""
         /\ f \notin bcomp[b]
         /\ bnew[b][f] = NoEntry

C15_NothingPersisted ==
    \A b \in Batchers, f \in Paths :
      (Saves(b) /\ bargs[b].cache_only /\ CacheMiss(b, f))
      => cacheFile'.map[f] = bread[b][f]

\* C15: with cache_only, an existing path without a valid cache entry gets the
\* empty string as its result, no hash worker is started for it, and the save
\* leaves the persisted entry of that path as the batch found it.
C15_CacheOnly == []C15_Unknown /\ [][C15_NothingPersisted]_vars

C15_Witness ==
    \E b \in Batchers, f \in Paths :
      /\ bargs[b].cache_only
      /\ CacheMiss(b, f)
      /\ bout[b] = "returned"
      /\ cacheFile.st = "ok"
      /\ cacheFile.map = bcache[b]
      /\ bload[b][f] # NoEntry

\* The paths batch b was called with.
Inputs(b) == {bargs[b].filepaths[k] : k \in 1 .. Len(bargs[b].filepaths)}

\* Path f has now the size and change-time batch b saw: it was not modified
\* since the batch handled it.
Unmodified(b, f) ==
    /\ bobs[b][f] # NoStat
    /\ hfiles[f].size = bobs[b][f].size
    /\ hfiles[f].ctime = bobs[b][f].ctime

\* C16: a path that does not exist gets null and does not abort the batch
\* (a batch is only ever left by an exception while a file is being hashed or
\* the cache is read again); the returned mapping has a key for every input
\* path and, unless cache_only, the hash of the bytes of every existing one.
C16_MissingFile ==
    \A b \in Batchers :
      /\ bout[b] = "returned" =>
           \A f \in Inputs(b) :
             /\ bres[b][f] # Unset
             /\ bobs[b][f] = NoStat => bres[b][f] = "None"
             /\ (Unmodified(b, f) /\ ~bargs[b].cache_only)
                  => bres[b][f] = Sha256(hfiles[f].data)
      /\ (bout[b] = "raised" /\ bi[b] <= Len(bargs[b].filepaths))
           => bargs[b].filepaths[bi[b]] \in bcomp[b]

C16_Witness ==
    \E b \in Batchers :
      /\ bout[b] = "returned"
      /\ bargs[b].filepaths = << "a", "b" >>
      /\ bres[b]["a"] = "None"
      /\ "b" \in bcomp[b]
      /\ bres[b]["b"] = "h1"

\* C17: a failing hash computation of one file does not abort the batch: no
\* batch is left by an exception while it is still inside the loop over its
\* paths.
C17_HashFailureIsolated ==
    \A b \in Batchers :
      ~ (bout[b] = "raised" /\ bi[b] <= Len(bargs[b].filepaths))

\* Batch b opens the cache file for its save in this step (the file is
\* truncated, then the merged cache is written).
OpensForSave(b) == bpc[b] = "write" /\ bpc'[b] = "writing"

\* C18: with two batches on disjoint paths, a batch that saves keeps every
\* entry the cache file holds for a path it did not hash: what it writes has
\* that entry as the file has it at the moment it is opened for writing.
C18_MergeOnSave ==
    [][\A b \in Batchers :
         (/\ OpensForSave(b)
          /\ Inputs(1) \cap Inputs(2) = {}
          /\ cacheFile.st = "ok")
         => \A f \in Paths :
              bnew[b][f] = NoEntry => bcache[b][f] = cacheFile.map[f]]_vars

\* C19: a cache file that cannot be read or parsed counts as an empty cache
\* wherever the batch reads it: no batch is left by an exception once its loop
\* over the paths is done, it goes on to save and return its results.
C19_CorruptCacheNotFatal ==
    \A b \in Batchers :
      ~ (bout[b] = "raised" /\ bi[b] > Len(bargs[b].filepaths))

\* ------------------------------------------------ properties of the markers
\* Every marker present stands on a finished stage: the runtime marker on both
\* checkouts at the identifier it records, a plugin marker on the plugin's
\* checkout at the identifier it records, the environment marker on an
\* environment whose package installs are done.
MarkersEarned ==
    /\ wsx.marker # "none"
       => wsx.exists /\ wsx.repo = RecordedId(wsx.marker) /\ wsx.mgr = "ok"
    /\ \A d \in PDirs :
         pdirs[d].marker # "none"
         => /\ pdirs[d].exists
            /\ pdirs[d].url \in PUrls
            /\ pdirs[d].commit = RecordedId(pdirs[d].marker)
    /\ wsx.venvDone => wsx.venv = "ready"

\* The marker of the stage that ran last, as that stage left it.
MarkerLeft ==
    CASE ev.stage = "runtime" -> ev.after[1].marker
      [] ev.stage = "plugin" -> ev.after[2][DirOf(mods[mi].url)].marker
      [] ev.stage = "deps" ->
           IF ev.after[1].venvDone THEN "DONE" ELSE "none"
      [] OTHER -> "none"

\* A stage that ran and raised left no marker.
FailureLeavesNoMarker ==
    (ev.ran /\ iout = "raised" /\ ev.id # "none") => MarkerLeft = "none"

\* The call after a failed runtime stage clones again, whatever it asks for.
RetryRedoes ==
    (/\ ev.stage = "runtime" /\ ev.ran /\ iout = "raised"
     /\ icalls' = icalls + 1 /\ ipc' = "idle" /\ ev'.stage = "runtime")
    => ev'.ran /\ "clone" \in iwork'

\* C20: a completion marker of a stage (runtime, plugin, dependency
\* environment) is present only when every sub-step of that stage completed
\* for the identifier it records; a stage that fails part-way leaves no
\* marker, and the next invocation of the stage runs it again in full.
C20_MarkerOnlyAfterSuccess ==
    /\ [](MarkersEarned /\ FailureLeavesNoMarker)
    /\ [][RetryRedoes]_vars

\* The runtime stage failed at the manager checkout of a workspace that had a
\* marker before, and left none.
C20_Witness ==
    /\ ev.stage = "runtime"
    /\ ev.ran
    /\ ev.marker # "none"
    /\ iout = "raised"
    /\ wsx.repo \in Commits
    /\ wsx.mgr = "partial"
    /\ wsx.marker = "none"

\* ------------------------------------------------- properties of install
\* The runtime stage of the running install is complete.
RuntimeDone == wsx.marker # "none" /\ Strip(wsx.marker) = ireq.commit

\* The positions of a pass that neither downloads nor prompts.
QuietLabels ==
    {"idle", "check", "move", "link_adopt", "link_cached", "bcopy", "bcopying",
     "link_bundled"}

\* Every change of position inside install follows the order of the steps,
\* and a step is entered only from the step before it, once that step is done.
InstallOrder ==
    ipc' # ipc =>
      /\ ipc' = "comfyui" => ipc = "idle"
      /\ ipc' = "deps" => ipc = "comfyui" /\ RuntimeDone'
      /\ ipc' = "restore"
         => ipc = "deps" /\ (ireq.no_venv \/ wsx'.venvDone)
                         /\ (ireq.no_venv => "pip" \in iwork')
      /\ ipc' = "inputs" => ipc = "restore" /\ wsx'.restored
      /\ ipc' = "models1"
         => ipc = "inputs" /\ wsx'.inputs /\ ireq.prepare_models
      /\ ipc' = "pass1"
         => ipc = "models1" /\ ~opt'[1].download /\ opt'[1].pack
      /\ ipc' = "preheat"
         => \/ ipc = "pass1" /\ last[1] = "returned" /\ pc[1] = "idle"
            \/ ipc = "inputs" /\ wsx'.inputs /\ ~ireq.prepare_models
      /\ ipc' = "models2"
         => /\ ipc = "preheat"
            /\ ireq.prepare_models
            /\ iout' = "running"
            /\ ireq.preheat <=> "preheat" \in iwork'
      /\ ipc' = "pass2"
         => /\ ipc = "models2"
            /\ opt'[1].download
            /\ opt'[1].all_models = ireq.all_models

\* The work of a step is carried out at that step's position only.
WorkInPlace ==
    /\ "clone" \in iwork' \ iwork => ipc = "comfyui"
    /\ "pip" \in iwork' \ iwork => ipc = "deps"
    /\ "restore" \in iwork' \ iwork => ipc = "restore"
    /\ "inputs" \in iwork' \ iwork => ipc = "inputs"
    /\ "preheat" \in iwork' \ iwork => ipc = "preheat"

\* Until the pre-warm step is over there is no download and no prompt: no
\* pass runs outside the two pass positions, and the first pass stays quiet.
QuietUntilPreheated ==
    /\ ipc \in {"comfyui", "deps", "restore", "inputs", "models1", "preheat",
                "models2"}
       => pc[1] = "idle"
    /\ ipc = "pass1"
       => pc[1] \in QuietLabels /\ ~net[1] /\ prompts[1] = 0

\* C21: install runs its steps in the order runtime stage, dependency stage,
\* snapshot replay, input copy, no-download pass, optional pre-warm, full
\* pass; nothing is downloaded and no operator is prompted before the pre-warm
\* step is over; the full pass starts only when every earlier step, an enabled
\* pre-warm included, succeeded.
C21_InstallOrder ==
    /\ []QuietUntilPreheated
    /\ [][InstallOrder /\ WorkInPlace]_vars

\* The full pass of an install with pre-warm has used the network.
C21_Witness ==
    /\ ipc = "pass2"
    /\ ireq.preheat
    /\ "preheat" \in iwork
    /\ {"restore", "inputs"} \subseteq iwork
    /\ net[1]

\* What a returned install has behind it: every step it sequences.
AllStepsDone ==
    /\ RuntimeDone
    /\ ireq.no_venv \/ wsx.venvDone
    /\ wsx.restored /\ wsx.inputs
    /\ {"restore", "inputs"} \subseteq iwork
    /\ ireq.preheat => "preheat" \in iwork
    /\ ireq.prepare_models
       => last[1] = "returned" /\ opt[1].download /\ pc[1] = "idle"

\* The steps of install after the given position, by the work they leave.
LaterWork(pos) ==
    CASE pos = "comfyui" -> {"venv", "pip", "venv_marker", "restore", "inputs",
                             "preheat"}
      [] pos = "deps" -> {"restore", "inputs", "preheat"}
      [] pos = "restore" -> {"inputs", "preheat"}
      [] pos = "inputs" -> {"preheat"}
      [] OTHER -> {}

\* A step that raises ends install there: none of the later steps has run.
RaiseEndsInstall ==
    (iout' = "raised" /\ iout # "raised")
    => /\ ipc' = "idle"
       /\ iwork' \cap LaterWork(ipc) = {}
       /\ ipc \in {"comfyui", "deps", "restore", "inputs", "pass1", "preheat"}
          => ~(pc'[1] # "idle" /\ opt'[1].download)

\* Once install has raised, nothing changes until install is called again.
NothingAfterRaise ==
    (iout = "raised" /\ icalls' = icalls)
    => UNCHANGED << wsx, pdirs, ws, store, iwork >>

\* C22: a failure of the runtime stage, the dependency stage, the snapshot
\* replay, the input copy or the pre-warm makes install raise and none of the
\* later steps runs; install returns normally only when every step it
\* sequences has completed.
C22_FailureAborts ==
    /\ [](iout = "returned" => AllStepsDone)
    /\ [][RaiseEndsInstall /\ NothingAfterRaise]_vars

\* The snapshot replay failed: install raised, no input was copied.
C22_Witness ==
    /\ iout = "raised"
    /\ ipc = "idle"
    /\ "restore" \in iwork
    /\ ~wsx.restored
    /\ "inputs" \notin iwork
    /\ RuntimeDone

\* install called on a snapshot without "pips" raises at once and touches
\* neither the workspace nor the store.
OldFormatRefused ==
    (~snap.pips /\ icalls' = icalls + 1)
    => /\ iout' = "raised"
       /\ ipc' = "idle"
       /\ iwork' = {}
       /\ UNCHANGED << wsx, pdirs, ws, store, ev >>

\* With such a snapshot no stage ever runs: everything is as it began.
OldFormatUntouched ==
    ~snap.pips
    => /\ ipc = "idle"
       /\ pc[1] = "idle"
       /\ iwork = {}
       /\ ev = NoEvent
       /\ wsx \in {Absent, Provisioned}
       /\ pdirs = NoPlugins
       /\ store = [h \in Hashes |-> None]
       /\ ws = ws0

\* C23: install on a package whose snapshot has no "pips" key raises before
\* any stage runs; the workspace directory, its markers and the store are left
\* exactly as they were.
C23_OldFormatRejected ==
    /\ []OldFormatUntouched
    /\ [][OldFormatRefused]_vars

\* install was called twice on such a package over a provisioned workspace.
C23_Witness ==
    /\ ~snap.pips
    /\ icalls = 2
    /\ iout = "raised"
    /\ wsx = Provisioned

\* C24: whenever no pass is running, every object at <store>/<h>, whether it
\* came there by adoption, bundled copy, download or a local file the operator
\* named, has content whose SHA-256 is h.
C24_ContentAddressed ==
    (\A p \in Procs : pc[p] = "idle")
    => \A h \in Hashes : store[h].k = "file" => Sha256(store[h].v) = h

\* C25: once install has returned, also when an earlier call was interrupted
\* at any point, nothing an interrupted call left behind counts as complete:
\* the runtime and the environment are whole, and no model path of the
\* workspace leads to a store object that is partially written or was never
\* verified against its hash.
C25_ReinvocationSafe ==
    iout = "returned"
    => /\ RuntimeDone /\ wsx.repo = ireq.commit /\ wsx.mgr = "ok"
       /\ wsx.venvDone => wsx.venv = "ready"
       /\ \A i \in Entries :
            ws[1][i].k = "link"
            => ReadStore(store, ws[1][i].v) \notin
                 {File("partial"), File("corrupt")}

\* ------------------------------------------ properties of create_model_symlink
\* C26: create_model_symlink on a target that is a symlink, whether its
\* referent exists or not, does not fail and leaves the target a symlink to
\* <store>/<sha256>.
C26_StaleLinkReplaced ==
    (lres # "none" /\ lpre[1].k = "link")
    => lres = "ok" /\ ws[1][1] = Link(lsha)

\* ------------------------------------- properties of failed verifications
\* The downloaded file of the entry process p is at fails verification.
VerifyFails(p) ==
    /\ pc[p] \in {"verify", "mverify"}
    /\ Exists(store, store[CurSha(p)])
    /\ get_sha256(store, CurSha(p)) # CurSha(p)

\* A download that fails verification is discarded and the entry goes on to
\* the operator's prompt; the pass neither raises nor leaves the entry.
FailedDownloadDiscarded(p) ==
    /\ (VerifyFails(p) /\ pc'[p] # pc[p])
       => /\ pc'[p] = (IF pc[p] = "verify" THEN "unlink" ELSE "munlink")
          /\ idx'[p] = idx[p] /\ last'[p] = last[p] /\ ws' = ws
    /\ (pc[p] \in {"unlink", "munlink"} /\ pc'[p] # pc[p])
       => /\ pc'[p] = "prompt"
          /\ store'[CurSha(p)] = None
          /\ idx'[p] = idx[p] /\ last'[p] = last[p] /\ ws' = ws

\* A local file the operator named is copied only when it hashes to the
\* entry's sha256; otherwise nothing is copied and the prompt comes again.
BadLocalFileRefused(p) ==
    /\ pc'[p] = "lcopy" /\ pc[p] # "lcopy" => Sha256(arg'[p]) = CurSha(p)
    /\ (pc[p] = "prompt" /\ pc'[p] = "prompt" /\ prompts'[p] # prompts[p])
       => /\ store' = store /\ ws' = ws
          /\ idx'[p] = idx[p] /\ last'[p] = last[p]

\* C27: a source download that fails verification is discarded and the entry
\* goes on to manual resolution; an operator download or local file that
\* fails verification is discarded or not copied and the operator is asked
\* again; in neither case does retrieve_models raise or leave the loop over
\* the entries.
C27_VerifyFailureContinues ==
    [][\A p \in Procs : FailedDownloadDiscarded(p) /\ BadLocalFileRefused(p)]_vars

\* The source download of an entry failed verification and was discarded; the
\* entry is at the operator's prompt.
C27_Witness ==
    \E p \in Procs :
      /\ pc[p] = "prompt"
      /\ Cur(p).source
      /\ net[p]
      /\ prompts[p] = 0
      /\ store[CurSha(p)] = None
      /\ last[p] = "running"

\* ------------------------------------------- properties of the plugin stage
\* C28: when install_custom_modules returns normally, every descriptor of the
\* snapshot with a non-empty url has its directory under custom_nodes, holding
\* that plugin's checkout with a marker equal to the descriptor's commit_hash.
C28_PluginPerDirectory ==
    [][(ipc = "plugins" /\ ipc' = "idle" /\ iout' = "returned")
       => \A k \in 1 .. Len(mods) :
            ~IsBlank(mods[k].url)
            => /\ pdirs'[DirOf(mods[k].url)].exists
               /\ pdirs'[DirOf(mods[k].url)].url = mods[k].url
               /\ pdirs'[DirOf(mods[k].url)].marker = mods[k].commit_hash]_vars

\* The running install has installed the snapshot's plugins: through
\* install_custom_modules or through the snapshot replay.
PluginsInstalled == "plugin_clone" \in iwork \/ "restore" \in iwork

\* C29: in every execution of install the runtime stage is complete before
\* plugin installation starts, plugin installation is complete before the
\* dependency environment is provisioned, and the environment is complete
\* before asset resolution starts.
C29_StageSequence ==
    /\ PluginsInstalled => RuntimeDone
    /\ iwork \cap {"venv", "pip", "venv_marker"} # {}
       => RuntimeDone /\ PluginsInstalled
    /\ ipc \in {"pass1", "pass2"}
       => PluginsInstalled /\ (ireq.no_venv \/ wsx.venvDone)

\* ------------------------------------------------ properties of the batch
\* Lines 100-101: the computations batch b has handed to the pool and not yet
\* got back.  Each one is awaited inside the loop before the next path is
\* looked at.
InFlight(b) ==
    IF bpc[b] = "hash" THEN {bargs[b].filepaths[bi[b]]} ELSE {}

\* The path is one batch b will have to hash: it exists, the cache the batch
\* loaded has no valid entry for it, and the batch may compute.
Uncached(b, f) ==
    /\ hfiles[f] # Missing
    /\ ~bargs[b].cache_only
    /\ ~CacheHit(bcache[b][f],
                 [size |-> hfiles[f].size, ctime |-> hfiles[f].ctime])

\* C30: within one batch the hash computations of its uncached paths run in
\* parallel: while one is in flight, every later uncached path of the batch
\* is in flight too (on a host whose pool has a worker for each).
C30_ParallelHashing ==
    \A b \in Batchers :
      bpc[b] = "hash"
      => \A k \in (bi[b] + 1) .. Len(bargs[b].filepaths) :
           Uncached(b, bargs[b].filepaths[k])
           => bargs[b].filepaths[k] \in InFlight(b)

\* ------------------------------------- properties of the two workspace markers
\* The runtime stage ran again: the environment went with the workspace.
RerunRemovesEnvironment ==
    (ipc = "comfyui" /\ "clone" \in iwork')
    => wsx'.venv = "none" /\ ~wsx'.venvDone

\* After such a run the dependency stage provisions the environment anew.
DepsRedoneAfterRerun ==
    (ipc = "deps" /\ ipc' # "deps" /\ iout' # "cancelled"
     /\ "clone" \in iwork /\ ~ireq.no_venv)
    => "venv" \in iwork'

AlreadyLinked(p) ==
    /\ pc[p] = "check"
    /\ idx[p] <= NumModels
    /\ Cur(p).sha # NoSha
    /\ \/ IsSymlink(ws[p][idx[p]]) /\ Exists(store, ws[p][idx[p]])
       \/ /\ ws[p][idx[p]].k = "file"
          /\ Exists(store, store[CurSha(p)])

\* C35: an entry whose workspace path is already there (a symlink with an
\* existing referent, whatever it points to, or a plain file while the store
\* holds the entry's sha256) is passed over: the loop goes on to the next
\* entry, the workspace path and the store stay as they are, and there is no
\* download and no prompt.
C35_LinkedEntryUntouched ==
    [][\A p \in Procs :
         (AlreadyLinked(p) /\ (pc'[p] # pc[p] \/ idx'[p] # idx[p]))
         => /\ pc'[p] = "check"
            /\ idx'[p] = idx[p] + 1
            /\ how'[p][idx[p]] = "present"
            /\ UNCHANGED << store, ws, net, prompts >>]_vars

\* ------------------------------------------------ properties of download_file
\* The host is the model-hosting provider or one of its subdomains.
ProviderHost(h) == h \in {"huggingface.co", "cdn-lfs.huggingface.co"}

\* C33: the request of download_file carries the bearer token when, and only
\* when, the credential variable is set and the host of the url is the
\* model-hosting provider, through curl and through urllib alike.
C33_CredentialScoped ==
    qout.fn = "download_file"
    => (qout.authorization # "none"
        <=> Truthy(qin.token) /\ ProviderHost(qin.url.host))

\* ------------------------------------------------ properties of the dev server
\* Nothing of a dev server is left: no handle, no task, no run directory,
\* no process alive and no run directory on disk.
Cleared ==
    /\ dproc = 0
    /\ dwdt = 0
    /\ drun = 0
    /\ dlive = {}
    /\ ddirs = {}

\* The last operation ended in a return of DevServer.stop.
StopReturned ==
    \/ dop.op \in {"terminate", "watch_dog"}
    \/ dop.op = "heartbeat" /\ dop.path = "exited"
    \/ dop.op = "serve" /\ dop.path = "port in use"

\* C36: after any sequence of starts, stops, heartbeats and watchdog
\* expiries at most one supervised process is alive, and it is the one the
\* handle names; once stop has returned the handle, the watchdog task and the
\* run directory are cleared; a heartbeat that finds the process exited
\* clears the same and answers that the server is not running.
C36_SingleDevServer ==
    /\ [](Cardinality(dlive) <= 1 /\ dlive \subseteq {dproc})
    /\ [](StopReturned => Cleared)
    /\ [][(dproc # 0 /\ dproc \notin dlive /\ dproc' # dproc
             /\ dop'.op = "heartbeat")
          => (Cleared' /\ dop'.says = "Server is not running")]_vars

\* A second server was started, exited on its own and was found by a
\* heartbeat.
C36_Witness ==
    /\ dstarts >= 2
    /\ dop.op = "heartbeat"
    /\ dop.path = "exited"
    /\ Cleared

\* The watchdog task runs and no heartbeat has fed it for longer than
\* TIMEOUT.
Expired == dwdt # 0 /\ dfeed + TIMEOUT < dnow

\* The watchdog task runs and its last feed is within the window.
Fed == dwdt # 0 /\ dfeed + TIMEOUT >= dnow

\* This step is the watchdog stopping the server.
WatchdogStops == dwdt # 0 /\ dwdt' = 0 /\ dop'.op = "watch_dog"

\* C31: once start has launched the process, a window of more than TIMEOUT
\* without a heartbeat leads to the supervised process terminated and its run
\* directory removed, unless a heartbeat has opened the window again before
\* the watchdog's round; and the watchdog stops the server in no step whose
\* last feed is within the window.
C31_Watchdog ==
    /\ \A i \in 1..MaxStarts :
         (Expired /\ dwdt = i)
           ~> ((i \notin dlive /\ i \notin ddirs) \/ (Fed /\ dwdt = i))
    /\ [][WatchdogStops => Expired]_vars

\* The watchdog has stopped a server that was started and then left
\* without heartbeats.
C31_Witness ==
    /\ dop.op = "watch_dog"
    /\ dstarts >= 1
    /\ dnow > TIMEOUT + 1
    /\ Cleared

\* ------------------------------------------------ properties of the handlers
\* C32: every response of the pack, serve and build handlers has a result
\* field that is "success" or "error"; a success has status 200, a
\* validation failure a 4xx status and an execution failure a 5xx status.
C32_ResponseContract ==
    qout.fn \in {"pack_workspace", "serve", "build_bento_api"}
    => /\ qout.result \in {"success", "error"}
       /\ (qout.result = "success" => qout.status = 200)
       /\ (qout.cause = "validation" => qout.status \in 400..499)
       /\ (qout.cause = "execution" => qout.status \in 500..599)
====
